---- MODULE Spec2Model ----
(***************************************************************************)
(* A model of the typerplus command pipeline: signature rewriting at       *)
(* build() time (param-type hooks, virtual options, context hiding), the   *)
(* adapter's invocation through the middleware chain, and the call         *)
(* argument resolution of Invocation.resolve_call_arguments.               *)
(*                                                                         *)
(* Python values are modelled as strings.  A keyword mapping (dict) is a   *)
(* function whose DOMAIN is the set of its keys.  A signature is the       *)
(* sequence of its parameters.                                             *)
(***************************************************************************)
EXTENDS Integers, Sequences, FiniteSets, TLC

\* ------------------------------------------------------------------------
\* Bounds of the model
\* ------------------------------------------------------------------------
MaxParams == 3
MaxArgs == 2
MaxInvocations == 2
MaxAdapters == 2
MaxMiddlewares == 2

\* ------------------------------------------------------------------------
\* Python values and small helpers
\* ------------------------------------------------------------------------
EmptyDict == [k \in {} |-> "x"]

DictSet(d, k, v) == [x \in (DOMAIN d) \cup {k} |-> IF x = k THEN v ELSE d[x]]

DictPop(d, k) == [x \in (DOMAIN d) \ {k} |-> d[x]]

DictUpdate(d, e) == [x \in (DOMAIN d) \cup (DOMAIN e) |-> IF x \in DOMAIN e THEN e[x] ELSE d[x]]

DictGet(d, k, default) == IF k \in DOMAIN d THEN d[k] ELSE default

RECURSIVE SeqDrop(_, _)
SeqDrop(s, n) == IF n = 0 \/ s = <<>> THEN s ELSE SeqDrop(Tail(s), n - 1)

SeqRange(s) == {s[i] : i \in DOMAIN s}

\* The InvocationContext object handed to hidden context parameters, the
\* marker of a parameter left to its own default, and the sentinels.
CTX == "CTX"
DEFAULT == "DEFAULT"
SigEmpty == "Signature.empty"
PyNone == "None"

\* ------------------------------------------------------------------------
\* inspect.Parameter and inspect.Signature
\* ------------------------------------------------------------------------
PO == "POSITIONAL_ONLY"
PK == "POSITIONAL_OR_KEYWORD"
VP == "VAR_POSITIONAL"
KO == "KEYWORD_ONLY"
VK == "VAR_KEYWORD"

Kinds == {PO, PK, VP, KO, VK}

KindRank(k) == CASE k = PO -> 0 [] k = PK -> 1 [] k = VP -> 2 [] k = KO -> 3 [] k = VK -> 4

Parameter(n, k, d, a) == [name |-> n, kind |-> k, default |-> d, annotation |-> a]

ParamNames(sig) == {sig[i].name : i \in DOMAIN sig}

HasKind(sig, k) == \E i \in DOMAIN sig : sig[i].kind = k

\* inspect.Signature.__init__ validation: kinds in order, no required
\* positional parameter after one with a default, no duplicate names.
SignatureValid(sig) ==
    /\ \A i, j \in DOMAIN sig : i < j => KindRank(sig[i].kind) <= KindRank(sig[j].kind)
    /\ \A i, j \in DOMAIN sig : i < j => sig[i].name # sig[j].name
    /\ \A i, j \in DOMAIN sig :
          (i < j /\ sig[i].kind \in {PO, PK} /\ sig[j].kind \in {PO, PK}
                 /\ sig[i].default # SigEmpty) => sig[j].default # SigEmpty

\* ------------------------------------------------------------------------
\* Type expressions (parameter annotations).  Every expression is a record
\* with the same fields: tag, name, args (sub-expressions), meta (the
\* metadata of an Annotated envelope).
\* ------------------------------------------------------------------------
AnnEmpty == [tag |-> "empty", name |-> "", args |-> <<>>, meta |-> <<>>]

AnnNone == [tag |-> "none", name |-> "NoneType", args |-> <<>>, meta |-> <<>>]

AnnClass(n) == [tag |-> "class", name |-> n, args |-> <<>>, meta |-> <<>>]

AnnStr(n) == [tag |-> "str", name |-> n, args |-> <<>>, meta |-> <<>>]

\* typing.ForwardRef(n): what typing makes of a string written as an
\* argument of Annotated[...], Optional[...] or Union[...].  It is no str.
AnnForwardRef(n) == [tag |-> "forwardref", name |-> n, args |-> <<>>, meta |-> <<>>]

\* typing._type_convert(arg): a string argument becomes a ForwardRef.
_type_convert(arg) == IF arg.tag = "str" THEN AnnForwardRef(arg.name) ELSE arg

AnnUnion(as) == [tag |-> "union", name |-> "", args |-> as, meta |-> <<>>]

\* typing.Annotated[base, *ms]
AnnAnnotated(base, ms) ==
    [tag |-> "annotated", name |-> "", args |-> <<_type_convert(base)>>, meta |-> ms]

\* X | Y on classes: a types.UnionType.
AnnUnionType(as) == [tag |-> "uniontype", name |-> "", args |-> as, meta |-> <<>>]

\* The arguments of a union once nested unions are flattened.
RECURSIVE FlattenUnionArgs(_)
FlattenUnionArgs(as) ==
    IF as = <<>> THEN <<>>
    ELSE IF Head(as).tag \in {"union", "uniontype"}
         THEN FlattenUnionArgs(Head(as).args) \o FlattenUnionArgs(Tail(as))
         ELSE <<Head(as)>> \o FlattenUnionArgs(Tail(as))

\* The first occurrence of every argument, in order.
RECURSIVE Dedupe(_, _)
Dedupe(as, seen) ==
    IF as = <<>> THEN <<>>
    ELSE IF Head(as) \in seen THEN Dedupe(Tail(as), seen)
    ELSE <<Head(as)>> \o Dedupe(Tail(as), seen \cup {Head(as)})

\* typing.Union[...]: flattened, duplicates removed, a single argument is
\* returned as itself.
typing_Union(as) ==
    LET flat == Dedupe(FlattenUnionArgs([i \in DOMAIN as |-> _type_convert(as[i])]), {})
    IN  IF Len(flat) = 1 THEN flat[1] ELSE AnnUnion(flat)

\* operator.or_(a, b): a types.UnionType when both sides are classes, None
\* or a types.UnionType; a typing.Union when a typing construct is involved.
or_(a, b) ==
    LET flat == Dedupe(FlattenUnionArgs(<<a, b>>), {})
    IN  IF a.tag \in {"class", "none", "uniontype"} /\ b.tag \in {"class", "none", "uniontype"}
        THEN (IF Len(flat) = 1 THEN flat[1] ELSE AnnUnionType(flat))
        ELSE typing_Union(<<a, b>>)

\* functools.reduce(or_, non_none) on a non-empty tuple.
RECURSIVE reduce_or(_, _)
reduce_or(acc, rest) == IF rest = <<>> THEN acc ELSE reduce_or(or_(acc, Head(rest)), Tail(rest))

\* typing.Optional[t]
AnnOptional(t) == typing_Union(<<t, AnnNone>>)

\* A metadata item: an option descriptor (typer ParameterInfo, an object
\* on the heap named by id) or any other metadata object.
MetaOption(i) == [kind |-> "option", id |-> i]

MetaOther(i) == [kind |-> "other", id |-> i]

\* issubclass(sub, sup) over the classes of the model: SubToken derives
\* from Token, bool from int, typer.Context from click.Context.
IsSubclass(sub, sup) ==
    \/ sub = sup
    \/ (sub = "SubToken" /\ sup = "Token")
    \/ (sub = "bool" /\ sup = "int")
    \/ (sub = "typer.Context" /\ sup = "click.Context")

RECURSIVE SeqFilterNotNone(_)
SeqFilterNotNone(as) ==
    IF as = <<>> THEN <<>>
    ELSE IF Head(as) = AnnNone THEN SeqFilterNotNone(Tail(as))
    ELSE <<Head(as)>> \o SeqFilterNotNone(Tail(as))

\* _strip_optional that knows typing.Union only, not the X | Y form.
strip_optional_typing_only(annotation) ==
    IF annotation.tag = "union"
    THEN LET non_none == SeqFilterNotNone(annotation.args)
             optional == Len(non_none) < Len(annotation.args)
         IN  IF non_none = <<>> THEN [type |-> annotation, optional |-> optional]
             ELSE IF Len(non_none) = 1 THEN [type |-> non_none[1], optional |-> optional]
             ELSE [type |-> reduce_or(Head(non_none), Tail(non_none)), optional |-> optional]
    ELSE [type |-> annotation, optional |-> FALSE]

_strip_optional(annotation) ==
    IF annotation.tag \in {"union", "uniontype"}
    THEN LET non_none == SeqFilterNotNone(annotation.args)
             optional == Len(non_none) < Len(annotation.args)
         IN  IF non_none = <<>> THEN [type |-> annotation, optional |-> optional]
             ELSE IF Len(non_none) = 1 THEN [type |-> non_none[1], optional |-> optional]
             ELSE [type |-> reduce_or(Head(non_none), Tail(non_none)), optional |-> optional]
    ELSE [type |-> annotation, optional |-> FALSE]

TyperAnnotation(annotation) ==
    LET is_annotated == annotation.tag = "annotated"
        base_annotation == IF is_annotated THEN annotation.args[1] ELSE annotation
        stripped == _strip_optional(base_annotation)
    IN  [annotated |-> is_annotated,
         annotations |-> IF is_annotated THEN annotation.meta ELSE <<>>,
         type |-> stripped.type,
         optional |-> stripped.optional]

RECURSIVE find_parameter_info_arg(_)
find_parameter_info_arg(annotations) ==
    IF annotations = <<>> THEN <<>>
    ELSE IF Head(annotations).kind = "option"
         THEN <<Head(annotations)>> \o find_parameter_info_arg(Tail(annotations))
         ELSE find_parameter_info_arg(Tail(annotations))

RECURSIVE metadata_without_parameter_info(_)
metadata_without_parameter_info(annotations) ==
    IF annotations = <<>> THEN <<>>
    ELSE IF Head(annotations).kind # "option"
         THEN <<Head(annotations)>> \o metadata_without_parameter_info(Tail(annotations))
         ELSE metadata_without_parameter_info(Tail(annotations))

\* TyperAnnotation.rebuild(annotations=metadata): type and optional flag of
\* the view, the given metadata.
rebuild(annot, metadata) ==
    LET typ == IF annot.optional THEN AnnOptional(annot.type) ELSE annot.type
    IN  IF metadata # <<>> THEN AnnAnnotated(typ, metadata) ELSE typ

\* ------------------------------------------------------------------------
\* Function objects.  code is the parameter list of the def itself (what a
\* call binds against); the other fields are attributes set on the object:
\* __signature__, __typerplus_original_signature__,
\* __typerplus_runtime_signature__, __typerplus_context_param_names__ and
\* __typerplus_virtual_param_names__.  A wrapper object a decorator
\* returned names that decorator (wrapper) and holds the function it
\* closes over (wrapped, a sequence of one; empty for a def).  applied
\* lists the decorators that have acted between the def and this object.
\* ------------------------------------------------------------------------
FunctionObject(params) ==
    [code |-> params,
     has_signature |-> FALSE, signature |-> <<>>,
     has_original_signature |-> FALSE, original_signature |-> <<>>,
     has_runtime_signature |-> FALSE, runtime_signature |-> <<>>,
     context_param_names |-> <<>>,
     virtual_param_names |-> <<>>,
     applied |-> <<>>,
     wrapper |-> "", wrapped |-> <<>>]

\* The def at the bottom of a chain of wrappers.
RECURSIVE Innermost(_)
Innermost(func) == IF func.wrapped = <<>> THEN func ELSE Innermost(func.wrapped[1])

\* inspect.signature(func): honours __signature__ when set.
inspect_signature(func) == IF func.has_signature THEN func.signature ELSE func.code

\* Outcomes of an operation that may raise.
NoError == "ok"
ErrMissingOption == "ValueError: missing option metadata"
ErrBadSignature == "ValueError: wrong parameter order"
ErrDuplicateVirtual == "ValueError: virtual option already registered"
ErrVariadicDefault == "ValueError: variadic parameters cannot have default values"

\* ------------------------------------------------------------------------
\* Parameter-type hooks (pipeline.py, _create_param_type_hook)
\* ------------------------------------------------------------------------
NoFactory == "None"
NewOptionFactory == "new_option"
UnsetParser == "None"

ParamTypeHook(t, of, pf) == [param_type |-> t, option_factory |-> of, parser_factory |-> pf]

_instantiate_parser(factory) == factory

\* A match on the very type only, without issubclass.
HookMatches_exact(hook, param) ==
    LET target_type == TyperAnnotation(param.annotation).type
    IN  /\ target_type.tag = "class"
        /\ target_type.name = hook.param_type

HookMatches(hook, param) ==
    LET target_type == TyperAnnotation(param.annotation).type
    IN  /\ target_type.tag = "class"
        /\ IsSubclass(target_type.name, hook.param_type)

\* A hook that leaves a matching parameter without option metadata as it
\* is when it has no option factory, instead of raising.
ensure_match_lenient(hook, param, acc) ==
    LET annot == TyperAnnotation(param.annotation)
        found == find_parameter_info_arg(annot.annotations)
        metadata == metadata_without_parameter_info(annot.annotations)
        fresh == Cardinality(DOMAIN acc.options) + 1
        option == IF found # <<>> THEN found[1] ELSE MetaOption(fresh)
        heap1 == IF found # <<>> THEN acc.options ELSE DictSet(acc.options, fresh, UnsetParser)
        heap2 == IF heap1[option.id] = UnsetParser /\ hook.parser_factory # NoFactory
                 THEN DictSet(heap1, option.id, _instantiate_parser(hook.parser_factory))
                 ELSE heap1
        new_annotation == rebuild(annot, Append(metadata, option))
        default == IF param.default = SigEmpty THEN PyNone ELSE param.default
        replaced == [param EXCEPT !.annotation = new_annotation, !.default = default]
    IN  IF found = <<>> /\ hook.option_factory = NoFactory
        THEN [acc EXCEPT !.params = Append(@, param)]
        ELSE IF param.kind \in {VP, VK} /\ default # SigEmpty
             THEN [acc EXCEPT !.options = heap2, !.error = ErrVariadicDefault]
        ELSE [acc EXCEPT !.params = Append(@, replaced), !.touched = TRUE, !.options = heap2]

\* A hook that assigns its parser whatever the option's click_type is.
ensure_match_overriding(hook, param, acc) ==
    LET annot == TyperAnnotation(param.annotation)
        found == find_parameter_info_arg(annot.annotations)
        metadata == metadata_without_parameter_info(annot.annotations)
        fresh == Cardinality(DOMAIN acc.options) + 1
        option == IF found # <<>> THEN found[1] ELSE MetaOption(fresh)
        heap1 == IF found # <<>> THEN acc.options ELSE DictSet(acc.options, fresh, UnsetParser)
        heap2 == IF hook.parser_factory # NoFactory
                 THEN DictSet(heap1, option.id, _instantiate_parser(hook.parser_factory))
                 ELSE heap1
        new_annotation == rebuild(annot, Append(metadata, option))
        default == IF param.default = SigEmpty THEN PyNone ELSE param.default
        replaced == [param EXCEPT !.annotation = new_annotation, !.default = default]
    IN  IF found = <<>> /\ hook.option_factory = NoFactory
        THEN [acc EXCEPT !.error = ErrMissingOption]
        ELSE IF param.kind \in {VP, VK} /\ default # SigEmpty
             THEN [acc EXCEPT !.options = heap2, !.error = ErrVariadicDefault]
        ELSE [acc EXCEPT !.params = Append(@, replaced), !.touched = TRUE, !.options = heap2]

\* One matching parameter of ensure()'s for-loop.  acc carries the loop's
\* variables: params, touched, the option heap and the error raised.
\* param.replace(annotation=..., default=default) raises on a *args or
\* **kwargs parameter, which takes no default; the option was made and
\* given its parser before that.
ensure_match(hook, param, acc) ==
    LET annot == TyperAnnotation(param.annotation)
        found == find_parameter_info_arg(annot.annotations)
        metadata == metadata_without_parameter_info(annot.annotations)
        fresh == Cardinality(DOMAIN acc.options) + 1
        option == IF found # <<>> THEN found[1] ELSE MetaOption(fresh)
        heap1 == IF found # <<>> THEN acc.options ELSE DictSet(acc.options, fresh, UnsetParser)
        heap2 == IF heap1[option.id] = UnsetParser /\ hook.parser_factory # NoFactory
                 THEN DictSet(heap1, option.id, _instantiate_parser(hook.parser_factory))
                 ELSE heap1
        new_annotation == rebuild(annot, Append(metadata, option))
        default == IF param.default = SigEmpty THEN PyNone ELSE param.default
        replaced == [param EXCEPT !.annotation = new_annotation, !.default = default]
    IN  IF found = <<>> /\ hook.option_factory = NoFactory
        THEN [acc EXCEPT !.error = ErrMissingOption]
        ELSE IF param.kind \in {VP, VK} /\ default # SigEmpty
             THEN [acc EXCEPT !.options = heap2, !.error = ErrVariadicDefault]
        ELSE [acc EXCEPT !.params = Append(@, replaced), !.touched = TRUE, !.options = heap2]

ensure_step(hook, param, acc) ==
    IF HookMatches(hook, param) THEN ensure_match(hook, param, acc)
    ELSE [acc EXCEPT !.params = Append(@, param)]

\* for param in sig.parameters.values(): ... (left at the first raise)
RECURSIVE ensure_loop(_, _, _)
ensure_loop(hook, params, acc) ==
    IF params = <<>> \/ acc.error # NoError THEN acc
    ELSE ensure_loop(hook, Tail(params), ensure_step(hook, Head(params), acc))

\* The end of ensure(): func.__signature__ = sig.replace(parameters=params)
\* when a parameter was touched; sig.replace validates the parameter list.
\* When ensure() raises, the option objects its option_factory made are
\* dropped; what it set on the options that existed before stays.
ensure_publish(func, opts, out) ==
    IF out.error # NoError
    THEN [func |-> func, options |-> [i \in DOMAIN opts |-> out.options[i]], error |-> out.error]
    ELSE IF ~out.touched THEN [func |-> func, options |-> out.options, error |-> NoError]
    ELSE IF ~SignatureValid(out.params)
         THEN [func |-> func, options |-> [i \in DOMAIN opts |-> out.options[i]],
               error |-> ErrBadSignature]
    ELSE [func |-> [func EXCEPT !.has_signature = TRUE, !.signature = out.params],
          options |-> out.options, error |-> NoError]

\* ensure(func): the function object after the hook, the option heap after
\* it and the error raised, if any.
ensure(hook, func, opts) ==
    ensure_publish(func, opts,
        ensure_loop(hook, inspect_signature(func),
            [params |-> <<>>, touched |-> FALSE, options |-> opts, error |-> NoError]))

\* ------------------------------------------------------------------------
\* Virtual options (pipeline.py, _VirtualParameter and friends)
\* ------------------------------------------------------------------------
NoStateKey == "None"

\* The f-string f"virtual:{name}".
VirtualStateKey(name) ==
    CASE name = "v" -> "virtual:v"
      [] name = "w" -> "virtual:w"
      [] name = "a" -> "virtual:a"
      [] name = "b" -> "virtual:b"
      [] name = "c" -> "virtual:c"
      [] OTHER -> "virtual:?"

\* The option object a virtual parameter has for its default.  The model
\* names an option object by its default attribute, and one that has no
\* such attribute by OptionWithoutDefault: the parameter's default is
\* never Signature.empty.
OptionWithoutDefault == "ParameterInfo without default"

OptionObject(option_default) ==
    IF option_default = SigEmpty THEN OptionWithoutDefault ELSE option_default

\* inspect.Parameter(name, kind=KEYWORD_ONLY, annotation=annotation_type,
\* default=option)
_create_virtual_option_parameter(name, option_default, annotation_type) ==
    Parameter(name, KO, OptionObject(option_default), annotation_type)

_VirtualParameter(name, parameter, state_key, default_value) ==
    [name |-> name, parameter |-> parameter, state_key |-> state_key,
     default_value |-> default_value]

\* The for-loop of _apply_virtual_parameters.
RECURSIVE virtual_loop(_, _)
virtual_loop(params, acc) ==
    IF params = <<>> THEN acc
    ELSE LET virtual == Head(params)
         IN  IF virtual.name \in acc.existing_names
             THEN virtual_loop(Tail(params), acc)
             ELSE virtual_loop(Tail(params),
                      [acc EXCEPT !.existing_params = Append(@, virtual.parameter),
                                  !.added = Append(@, virtual.name)])

virtual_publish(func, out) ==
    IF out.added = <<>> THEN [func |-> func, error |-> NoError]
    ELSE IF ~SignatureValid(out.existing_params)
         THEN [func |-> func, error |-> ErrBadSignature]
    ELSE [func |-> [func EXCEPT !.has_signature = TRUE,
                                !.signature = out.existing_params,
                                !.virtual_param_names = @ \o out.added],
          error |-> NoError]

_apply_virtual_parameters(func, params) ==
    IF params = <<>> THEN [func |-> func, error |-> NoError]
    ELSE virtual_publish(func,
             virtual_loop(params,
                 [existing_params |-> inspect_signature(func),
                  existing_names |-> ParamNames(inspect_signature(func)),
                  added |-> <<>>]))

\* ------------------------------------------------------------------------
\* Context-parameter hiding (pipeline.py, _ensure_invocation_context_parameter)
\* ------------------------------------------------------------------------
_CONTEXT_TYPE_SENTINELS == {"InvocationContext", "CommandContext"}

_is_invocation_context_annotation(annotation) ==
    LET target == TyperAnnotation(annotation).type
    IN  \/ target = AnnClass("InvocationContext")
        \/ (target.tag = "str" /\ target.name \in _CONTEXT_TYPE_SENTINELS)

RECURSIVE SelectParams(_, _)
SelectParams(sig, want_context) ==
    IF sig = <<>> THEN <<>>
    ELSE IF _is_invocation_context_annotation(Head(sig).annotation) = want_context
         THEN <<Head(sig)>> \o SelectParams(Tail(sig), want_context)
         ELSE SelectParams(Tail(sig), want_context)

RECURSIVE NamesOf(_)
NamesOf(sig) == IF sig = <<>> THEN <<>> ELSE <<Head(sig).name>> \o NamesOf(Tail(sig))

\* The recording without the early return for a function that has no
\* context parameter.
hide_context_parameters_unconditional(func, sig, context_params, remaining_params) ==
    [func EXCEPT !.has_original_signature = TRUE, !.original_signature = sig,
                 !.has_runtime_signature = TRUE, !.runtime_signature = remaining_params,
                 !.context_param_names = NamesOf(context_params),
                 !.has_signature = TRUE, !.signature = remaining_params]

hide_context_parameters(func, sig, context_params, remaining_params) ==
    IF context_params = <<>> THEN func
    ELSE [func EXCEPT !.has_original_signature = TRUE, !.original_signature = sig,
                      !.has_runtime_signature = TRUE, !.runtime_signature = remaining_params,
                      !.context_param_names = NamesOf(context_params),
                      !.has_signature = TRUE, !.signature = remaining_params]

_ensure_invocation_context_parameter(func) ==
    IF func.context_param_names # <<>> THEN func
    ELSE hide_context_parameters(func, inspect_signature(func),
             SelectParams(inspect_signature(func), TRUE),
             SelectParams(inspect_signature(func), FALSE))

\* signature.set_signature: func.__signature__ = sig, and nothing else.
set_signature(func, sig) == [func EXCEPT !.has_signature = TRUE, !.signature = sig]

\* ensure_signature (types.py, and signature.py through set_signature):
\* publish the signature inspect derives if none is set.
ensure_signature(func) ==
    IF func.has_signature THEN func ELSE set_signature(func, func.code)

\* ------------------------------------------------------------------------
\* Invocation.resolve_call_arguments (types.py)
\* ------------------------------------------------------------------------
InvocationCall(args, kwargs) == [args |-> args, kwargs |-> kwargs]

RECURSIVE PopAll(_, _)
PopAll(d, names) ==
    IF names = {} THEN d
    ELSE LET n == CHOOSE x \in names : TRUE IN PopAll(DictPop(d, n), names \ {n})

\* One iteration of the walk over exec_sig.parameters.  st carries idx,
\* kwargs_map, final_args and final_kwargs.
resolve_step(param, args_list, context_names_set, virtual_names_set, st) ==
    CASE param.name \in context_names_set /\ param.kind \in {PO, PK} ->
             [st EXCEPT !.final_args = Append(@, CTX)]
      [] param.name \in context_names_set /\ param.kind \notin {PO, PK} ->
             [st EXCEPT !.final_kwargs = DictSet(@, param.name, CTX)]
      [] param.name \notin context_names_set /\ param.name \in virtual_names_set ->
             IF param.kind \in {PO, PK} /\ st.idx < Len(args_list)
             THEN [st EXCEPT !.idx = @ + 1]
             ELSE st
      [] param.name \notin context_names_set \cup virtual_names_set /\ param.kind = VP ->
             IF st.idx < Len(args_list)
             THEN [st EXCEPT !.final_args = @ \o SeqDrop(args_list, st.idx),
                             !.idx = Len(args_list)]
             ELSE st
      [] param.name \notin context_names_set \cup virtual_names_set /\ param.kind = VK ->
             IF DOMAIN st.kwargs_map # {}
             THEN [st EXCEPT !.final_kwargs = DictUpdate(@, st.kwargs_map),
                             !.kwargs_map = EmptyDict]
             ELSE st
      [] param.name \notin context_names_set \cup virtual_names_set /\ param.kind = KO ->
             IF param.name \in DOMAIN st.kwargs_map
             THEN [st EXCEPT !.final_kwargs = DictSet(@, param.name, st.kwargs_map[param.name]),
                             !.kwargs_map = DictPop(@, param.name)]
             ELSE st
      [] OTHER ->
             IF param.name \in DOMAIN st.kwargs_map
             THEN [st EXCEPT !.final_kwargs = DictSet(@, param.name, st.kwargs_map[param.name]),
                             !.kwargs_map = DictPop(@, param.name)]
             ELSE IF st.idx < Len(args_list)
             THEN [st EXCEPT !.final_args = Append(@, args_list[st.idx + 1]),
                             !.idx = @ + 1]
             ELSE st

\* for name, param in exec_sig.parameters.items(): ...
RECURSIVE resolve_loop(_, _, _, _, _)
resolve_loop(params, args_list, context_names_set, virtual_names_set, st) ==
    IF params = <<>> THEN st
    ELSE resolve_loop(Tail(params), args_list, context_names_set, virtual_names_set,
             resolve_step(Head(params), args_list, context_names_set, virtual_names_set, st))

\* The result without the merge of the kwargs the walk left unconsumed.
resolve_finish_without_leftovers(out) == InvocationCall(out.final_args, out.final_kwargs)

resolve_finish(out) == InvocationCall(out.final_args, DictUpdate(out.final_kwargs, out.kwargs_map))

\* resolve_call_arguments of an Invocation whose target is the function
\* object target and whose call is call: the (args, kwargs) handed to the
\* target.
resolve_call_arguments(target, call) ==
    resolve_finish(
        resolve_loop(IF target.has_original_signature THEN target.original_signature
                     ELSE inspect_signature(target),
                     call.args,
                     SeqRange(target.context_param_names),
                     SeqRange(target.virtual_param_names),
                     [idx |-> 0,
                      kwargs_map |-> PopAll(call.kwargs,
                                        SeqRange(target.virtual_param_names) \cap DOMAIN call.kwargs),
                      final_args |-> <<>>, final_kwargs |-> EmptyDict]))

\* The keys of final_kwargs in the order resolve_call_arguments inserts
\* them: those the walk sets, parameter by parameter (a var-keyword
\* parameter takes all that is left of kwargs_map), then the leftovers.
\* remaining is the list of the keys of kwargs_map.
RECURSIVE AppendNew(_, _)
AppendNew(order, keys) ==
    IF keys = <<>> THEN order
    ELSE AppendNew(IF Head(keys) \in SeqRange(order) THEN order ELSE Append(order, Head(keys)),
                   Tail(keys))

RECURSIVE SeqWithout(_, _)
SeqWithout(s, x) ==
    IF s = <<>> THEN <<>>
    ELSE (IF Head(s) = x THEN <<>> ELSE <<Head(s)>>) \o SeqWithout(Tail(s), x)

RECURSIVE resolve_key_order(_, _, _, _, _)
resolve_key_order(params, context_names_set, virtual_names_set, remaining, order) ==
    IF params = <<>> THEN AppendNew(order, remaining)
    ELSE LET param == Head(params)
         IN  IF param.name \in context_names_set
             THEN resolve_key_order(Tail(params), context_names_set, virtual_names_set, remaining,
                      IF param.kind \in {PO, PK} THEN order ELSE AppendNew(order, <<param.name>>))
             ELSE IF param.name \in virtual_names_set \/ param.kind = VP
             THEN resolve_key_order(Tail(params), context_names_set, virtual_names_set,
                                    remaining, order)
             ELSE IF param.kind = VK
             THEN resolve_key_order(Tail(params), context_names_set, virtual_names_set,
                                    <<>>, AppendNew(order, remaining))
             ELSE IF param.name \in SeqRange(remaining)
             THEN resolve_key_order(Tail(params), context_names_set, virtual_names_set,
                                    SeqWithout(remaining, param.name),
                                    AppendNew(order, <<param.name>>))
             ELSE resolve_key_order(Tail(params), context_names_set, virtual_names_set,
                                    remaining, order)

\* ------------------------------------------------------------------------
\* Python's binding of a call to a parameter list: what func(*args,
\* **kwargs) and inspect.Signature.bind do.  named maps each named
\* parameter to its value (DEFAULT when left to its default), star is the
\* var-positional tuple, starstar the var-keyword dict.
\* ------------------------------------------------------------------------
ErrTooManyPositional == "TypeError: too many positional arguments"
ErrMultipleValues == "TypeError: multiple values for argument"
ErrUnexpectedKeyword == "TypeError: unexpected keyword argument"
ErrMissingArgument == "TypeError: missing required argument"
ErrPositionalOnlyKeyword == "TypeError: positional-only arguments passed as keyword arguments"

\* The order in which a dict written in the model is iterated: the keys of
\* a call's kwargs are written in alphabetical order.
KeyOrder == <<"a", "b", "c", "ctx", "d", "e", "t", "v", "w", "x">>

RECURSIVE KeysIn(_, _)
KeysIn(order, keys) ==
    IF order = <<>> THEN <<>>
    ELSE (IF Head(order) \in keys THEN <<Head(order)>> ELSE <<>>) \o KeysIn(Tail(order), keys)

SortedKeys(d) == KeysIn(KeyOrder, DOMAIN d)

\* The keyword arguments of a call are examined in order: one naming a
\* parameter a positional argument has filled, or one no parameter takes
\* (when there is no var-keyword parameter), raises.
RECURSIVE KeywordError(_, _, _, _, _)
KeywordError(keys, all_keys, sig, by_position, keywordable) ==
    IF keys = <<>> THEN NoError
    ELSE IF Head(keys) \in keywordable
    THEN (IF Head(keys) \in by_position THEN ErrMultipleValues
          ELSE KeywordError(Tail(keys), all_keys, sig, by_position, keywordable))
    ELSE IF HasKind(sig, VK)
    THEN KeywordError(Tail(keys), all_keys, sig, by_position, keywordable)
    ELSE IF \E i \in DOMAIN sig : sig[i].kind = PO /\ sig[i].name \in all_keys
    THEN ErrPositionalOnlyKeyword
    ELSE ErrUnexpectedKeyword

RECURSIVE PositionalParams(_)
PositionalParams(sig) ==
    IF sig = <<>> THEN <<>>
    ELSE IF Head(sig).kind \in {PO, PK} THEN <<Head(sig)>> \o PositionalParams(Tail(sig))
    ELSE PositionalParams(Tail(sig))

\* func(*args, **kwargs), keys being the keys of kwargs in order.  The
\* keyword arguments are examined first, then the number of positional
\* arguments, then the parameters left without a value.
BindCallOrdered(sig, call, keys) ==
    LET pos == PositionalParams(sig)
        npos == IF Len(call.args) < Len(pos) THEN Len(call.args) ELSE Len(pos)
        by_position == {pos[i].name : i \in 1..npos}
        keywordable == {sig[i].name : i \in {j \in DOMAIN sig : sig[j].kind \in {PK, KO}}}
        named_params == {sig[i].name : i \in {j \in DOMAIN sig : sig[j].kind \in {PO, PK, KO}}}
        extra_kw == (DOMAIN call.kwargs) \ keywordable
        by_keyword == (DOMAIN call.kwargs) \cap keywordable
        required == {sig[i].name : i \in {j \in DOMAIN sig :
                          sig[j].kind \in {PO, PK, KO} /\ sig[j].default = SigEmpty}}
        PosIndex(n) == CHOOSE i \in 1..npos : pos[i].name = n
        keyword_error == KeywordError(keys, DOMAIN call.kwargs, sig, by_position, keywordable)
        error ==
            IF keyword_error # NoError THEN keyword_error
            ELSE IF Len(call.args) > Len(pos) /\ ~HasKind(sig, VP) THEN ErrTooManyPositional
            ELSE IF required \ (by_position \cup by_keyword) # {} THEN ErrMissingArgument
            ELSE NoError
    IN  [error |-> error,
         named |-> [n \in named_params |->
                       IF n \in by_position THEN call.args[PosIndex(n)]
                       ELSE IF n \in by_keyword THEN call.kwargs[n]
                       ELSE DEFAULT],
         star |-> SeqDrop(call.args, npos),
         starstar |-> [n \in extra_kw |-> call.kwargs[n]]]

\* A call written in the model: its keywords in alphabetical order.
BindCall(sig, call) == BindCallOrdered(sig, call, SortedKeys(call.kwargs))

\* list(final_kwargs) after resolve_call_arguments on target and call.
resolved_keys(target, call) ==
    resolve_key_order(IF target.has_original_signature THEN target.original_signature
                      ELSE inspect_signature(target),
                      SeqRange(target.context_param_names),
                      SeqRange(target.virtual_param_names),
                      KeysIn(SortedKeys(call.kwargs),
                             (DOMAIN call.kwargs) \ SeqRange(target.virtual_param_names)),
                      <<>>)

\* ------------------------------------------------------------------------
\* State
\* ------------------------------------------------------------------------
VARIABLES
    functions,   \* the function objects, by name
    options,     \* the option descriptor objects: id -> click_type
    pipelines,   \* the Pipeline objects, by name
    config,      \* a PipelineConfig value
    adapters,    \* the adapters build() has returned, in order
    inv,         \* the adapter invocation in progress
    heap,        \* the state dict objects: id -> dict
    finished,    \* the completed adapter invocations, in order
    last,        \* the outcome of the last configuration or build call
    app          \* the TyperPlus app

vars == <<functions, options, pipelines, config, adapters, inv, heap, finished, last, app>>

\* The None of a reference to a Pipeline.
NoPipeline == 0

\* TyperPlus.__init__: the app with its explicit Pipeline (or None), the
\* register closures app.command() has returned (each the Pipeline it
\* captured), the commands registered on it, and the helper calls made, on
\* it or on the global configuration, since the last setup().
TyperPlus(pipeline) ==
    [_pipeline |-> pipeline, registers |-> <<>>, registered_commands |-> <<>>, helpers |-> <<>>]

\* ------------------------------------------------------------------------
\* Pipeline (pipeline.py)
\* ------------------------------------------------------------------------
DefaultFactory == "_default_invocation_factory"
SharedStateFactory == "shared_state_factory"

\* Pipeline.__init__
Pipeline(decorators, middlewares, invocation_factory) ==
    [decorators |-> decorators,
     middlewares |-> middlewares,
     param_hooks |-> <<>>,
     virtual_params |-> <<>>,
     invocation_factory |-> IF invocation_factory = "None" THEN DefaultFactory
                            ELSE invocation_factory]

Outcome(op, who, error) == [op |-> op, who |-> who, error |-> error]

\* The outcome of registering a virtual option under a name.
RegistrationOutcome(op, who, name, error) == [op |-> op, who |-> who, name |-> name, error |-> error]

use(p, middleware) ==
    /\ pipelines' = [pipelines EXCEPT ![p].middlewares = Append(@, middleware)]
    /\ last' = Outcome("use", p, NoError)
    /\ UNCHANGED <<app, functions, options, config, adapters, inv, heap, finished>>

use_decorator(p, decorator) ==
    /\ pipelines' = [pipelines EXCEPT ![p].decorators = Append(@, decorator)]
    /\ last' = Outcome("use_decorator", p, NoError)
    /\ UNCHANGED <<app, functions, options, config, adapters, inv, heap, finished>>

set_invocation_factory(p, factory) ==
    /\ pipelines' = [pipelines EXCEPT ![p].invocation_factory = factory]
    /\ last' = Outcome("set_invocation_factory", p, NoError)
    /\ UNCHANGED <<app, functions, options, config, adapters, inv, heap, finished>>

register_param_type(p, param_type, option_factory, parser_factory) ==
    /\ pipelines' = [pipelines EXCEPT ![p].param_hooks =
                        Append(@, ParamTypeHook(param_type, option_factory, parser_factory))]
    /\ last' = Outcome("register_param_type", p, NoError)
    /\ UNCHANGED <<app, functions, options, config, adapters, inv, heap, finished>>

\* Pipeline.add_virtual_option on a pipeline value: the pipeline after the
\* call and the error raised.  option_default is the default attribute of
\* the option (Signature.empty when the option has none).
add_virtual_option_to(pipeline, name, option_default, annotation_type, state_key, store_in_state) ==
    IF \E i \in DOMAIN pipeline.virtual_params : pipeline.virtual_params[i].name = name
    THEN [pipeline |-> pipeline, error |-> ErrDuplicateVirtual]
    ELSE LET parameter == _create_virtual_option_parameter(name, option_default, annotation_type)
             resolved_state_key ==
                 IF store_in_state
                 THEN (IF state_key \in {NoStateKey, ""} THEN VirtualStateKey(name) ELSE state_key)
                 ELSE NoStateKey
         IN  [pipeline |-> [pipeline EXCEPT !.virtual_params =
                               Append(@, _VirtualParameter(name, parameter, resolved_state_key,
                                                           option_default))],
              error |-> NoError]

add_virtual_option(p, name, option_default, annotation_type, state_key, store_in_state) ==
    LET out == add_virtual_option_to(pipelines[p], name, option_default, annotation_type,
                                     state_key, store_in_state)
    IN  /\ pipelines' = [pipelines EXCEPT ![p] = out.pipeline]
        /\ last' = RegistrationOutcome("add_virtual_option", p, name, out.error)
        /\ UNCHANGED <<app, functions, options, config, adapters, inv, heap, finished>>

\* The signature decorators of the model.  add_token, add_ctx and add_v
\* publish on the function they are given: __signature__ becomes the
\* signature they find with one more keyword-only parameter (unless the
\* name is taken), through sig.replace, which validates.  The others
\* return a new wrapper object: template a wrapper (*args, **kwargs) that
\* publishes a template signature and calls the function without
\* arguments; _ensure_context_parameter the wrapper of pipeline.py; any
\* other id a wrapper (*a, **k) without functools.wraps that forwards its
\* arguments.
DecoratorParameter(decorator) ==
    CASE decorator = "add_token" -> Parameter("t", KO, SigEmpty, AnnClass("Token"))
      [] decorator = "add_ctx" -> Parameter("c", KO, SigEmpty, AnnClass("InvocationContext"))
      [] decorator = "add_v" -> Parameter("v", KO, "False", AnnClass("bool"))

TemplateSignature == <<Parameter("x", PK, "0", AnnClass("int"))>>

TyperContext == AnnClass("typer.Context")

CtxParameter == Parameter("ctx", PK, SigEmpty, TyperContext)

\* The def of the wrapper a decorator returns.
WrapperCode(decorator) ==
    CASE decorator = "_ensure_context_parameter" ->
             <<CtxParameter, Parameter("args", VP, SigEmpty, AnnClass("Any")),
               Parameter("kwargs", VK, SigEmpty, AnnClass("Any"))>>
      [] decorator = "template" ->
             <<Parameter("args", VP, SigEmpty, AnnEmpty), Parameter("kwargs", VK, SigEmpty, AnnEmpty)>>
      [] OTHER ->
             <<Parameter("a", VP, SigEmpty, AnnEmpty), Parameter("k", VK, SigEmpty, AnnEmpty)>>

\* A new wrapper object around func, without functools.wraps.
NewWrapper(decorator, func) ==
    [FunctionObject(WrapperCode(decorator)) EXCEPT
        !.applied = Append(func.applied, decorator),
        !.wrapper = decorator, !.wrapped = <<func>>]

_looks_like_context_param(param) ==
    \/ param.annotation \in {TyperContext, AnnClass("click.Context")}
    \/ (param.name = "ctx" /\ param.annotation = AnnEmpty)

\* _ensure_context_parameter(func): func itself when it has a context
\* parameter; else a wrapper made with functools.wraps (the attributes of
\* func are copied onto it) that publishes ctx followed by the parameters
\* of func; sig.replace raises when that list is not a signature.
_ensure_context_parameter(func) ==
    IF \E i \in DOMAIN inspect_signature(func) :
           _looks_like_context_param(inspect_signature(func)[i])
    THEN [func |-> func, error |-> NoError]
    ELSE IF ~SignatureValid(<<CtxParameter>> \o inspect_signature(func))
    THEN [func |-> func, error |-> ErrBadSignature]
    ELSE [func |-> [func EXCEPT !.code = WrapperCode("_ensure_context_parameter"),
                                !.has_signature = TRUE,
                                !.signature = <<CtxParameter>> \o inspect_signature(func),
                                !.applied = Append(@, "_ensure_context_parameter"),
                                !.wrapper = "_ensure_context_parameter",
                                !.wrapped = <<func>>],
          error |-> NoError]

\* dec(decorated): the object returned and the error raised.
decorate(decorator, func) ==
    IF decorator \in {"add_token", "add_ctx", "add_v"}
    THEN IF DecoratorParameter(decorator).name \in ParamNames(inspect_signature(func))
         THEN [func |-> [func EXCEPT !.applied = Append(@, decorator)], error |-> NoError]
         ELSE IF ~SignatureValid(Append(inspect_signature(func), DecoratorParameter(decorator)))
         THEN [func |-> func, error |-> ErrBadSignature]
         ELSE [func |-> [func EXCEPT !.applied = Append(@, decorator),
                                     !.has_signature = TRUE,
                                     !.signature = Append(inspect_signature(func),
                                                          DecoratorParameter(decorator))],
               error |-> NoError]
    ELSE IF decorator = "template"
    THEN [func |-> [NewWrapper(decorator, func) EXCEPT
                       !.has_signature = TRUE, !.signature = TemplateSignature],
          error |-> NoError]
    ELSE IF decorator = "_ensure_context_parameter"
    THEN _ensure_context_parameter(func)
    ELSE [func |-> NewWrapper(decorator, func), error |-> NoError]

\* for dec in self._decorators: decorated = dec(decorated), left at the
\* first raise; acc is the function object, the option heap and the error
\* raised so far.
RECURSIVE apply_decorators(_, _)
apply_decorators(decorators, acc) ==
    IF decorators = <<>> \/ acc.error # NoError THEN acc
    ELSE apply_decorators(Tail(decorators),
             [acc EXCEPT !.func = decorate(Head(decorators), acc.func).func,
                         !.error = decorate(Head(decorators), acc.func).error])

\* for hook in self._param_hooks: decorated = hook(decorated); acc is the
\* function object, the option heap and the error raised so far.
RECURSIVE apply_hooks(_, _)
apply_hooks(hooks, acc) ==
    IF hooks = <<>> \/ acc.error # NoError THEN acc
    ELSE apply_hooks(Tail(hooks), ensure(Head(hooks), acc.func, acc.options))

RECURSIVE Reverse(_)
Reverse(s) == IF s = <<>> THEN <<>> ELSE Append(Reverse(Tail(s)), Head(s))

\* handler = base; for mw in reversed(middlewares): handler = mw(handler).
\* A handler is the list of the middlewares wrapped around base, the
\* outermost first; wrapping puts a middleware in front.
RECURSIVE wrap_handlers(_, _)
wrap_handlers(reversed_middlewares, handler) ==
    IF reversed_middlewares = <<>> THEN handler
    ELSE wrap_handlers(Tail(reversed_middlewares), <<Head(reversed_middlewares)>> \o handler)

\* The chain composed without reversed(): the last registered outermost.
compose_handler_unreversed(middlewares) == wrap_handlers(middlewares, <<>>)

compose_handler(middlewares) == wrap_handlers(Reverse(middlewares), <<>>)

\* The adapter build() returns.  It keeps a reference to its Pipeline
\* (self), the handler and the virtual list composed at build time, and the
\* signature copied from the decorated function; built_from is the
\* Pipeline's configuration at build time.
Adapter(p, pipeline, f, decorated) ==
    [self |-> p, original |-> f, target |-> f,
     handler |-> compose_handler(pipeline.middlewares),
     current_virtual_params |-> pipeline.virtual_params,
     signature |-> inspect_signature(decorated),
     built_from |-> pipeline]

BuildOutcome(func, opts, error, adapter) ==
    [func |-> func, options |-> opts, error |-> error, adapter |-> adapter]

build_finish(p, pipeline, f, opts, decorated) ==
    BuildOutcome(decorated, opts, NoError, Adapter(p, pipeline, f, decorated))

build_after_virtuals(p, pipeline, f, opts, virtualised) ==
    IF virtualised.error # NoError
    THEN BuildOutcome(virtualised.func, opts, virtualised.error, Adapter(p, pipeline, f, virtualised.func))
    ELSE build_finish(p, pipeline, f, opts,
             ensure_signature(_ensure_invocation_context_parameter(virtualised.func)))

build_after_hooks(p, pipeline, f, hooked) ==
    IF hooked.error # NoError
    THEN BuildOutcome(hooked.func, hooked.options, hooked.error, Adapter(p, pipeline, f, hooked.func))
    ELSE build_after_virtuals(p, pipeline, f, hooked.options,
             _apply_virtual_parameters(hooked.func, pipeline.virtual_params))

\* A build that runs the param-type hooks on the function it is given
\* and the decorators on their result.
build_result_hooks_first(p, pipeline, f, func, opts) ==
    build_after_hooks(p, pipeline, f,
        apply_decorators(pipeline.decorators,
            apply_hooks(pipeline.param_hooks,
                [func |-> func, options |-> opts, error |-> NoError])))

\* Pipeline.build(func) of pipeline p on the function object named f: the
\* function object and option heap it leaves, the error raised, and the
\* adapter returned (when no error is raised).
build_result(p, pipeline, f, func, opts) ==
    build_after_hooks(p, pipeline, f,
        apply_hooks(pipeline.param_hooks,
            apply_decorators(pipeline.decorators,
                [func |-> func, options |-> opts, error |-> NoError])))

\* The name under which the model keeps the wrapper object the n-th
\* adapter closes over.
WrapperName(n) ==
    CASE n = 1 -> "wrapper1" [] n = 2 -> "wrapper2" [] n = 3 -> "wrapper3"
      [] n = 4 -> "wrapper4" [] n = 5 -> "wrapper5" [] OTHER -> "wrapper6"

\* The wrapper object func seen after the def at the bottom of its chain
\* has become base: a wrapper refers to the object it closes over, it
\* holds no copy of it.
RECURSIVE Rebase(_, _)
Rebase(func, base) ==
    IF func.wrapped = <<>> THEN base
    ELSE [func EXCEPT !.wrapped = <<Rebase(func.wrapped[1], base)>>]

\* Whether x names the wrapper object an adapter built on f closes over.
ClosesOver(x, f) ==
    \E i \in DOMAIN adapters : adapters[i].target = x /\ adapters[i].original = f /\ x # f

\* What build() leaves behind.  When no decorator wrapped, the decorated
\* object is the function itself.  When one did, the function keeps what
\* was set on it before the first wrapper was made, and the wrapper object
\* lives on as the target of the adapter (it is dropped when build()
\* raised).  The wrappers earlier builds made around the function close
\* over the same function object and see what this build set on it.
build_commit(p, f, out) ==
    /\ functions' =
           [x \in DOMAIN functions
                 \cup (IF out.func.wrapped # <<>> /\ out.error = NoError
                       THEN {WrapperName(Len(adapters) + 1)} ELSE {}) |->
               IF x = f THEN Innermost(out.func)
               ELSE IF x \notin DOMAIN functions THEN out.func
               ELSE IF ClosesOver(x, f) THEN Rebase(functions[x], Innermost(out.func))
               ELSE functions[x]]
    /\ options' = out.options
    /\ adapters' = IF out.error # NoError THEN adapters
                   ELSE IF out.func.wrapped = <<>> THEN Append(adapters, out.adapter)
                   ELSE Append(adapters,
                               [out.adapter EXCEPT !.target = WrapperName(Len(adapters) + 1)])
    /\ last' = Outcome("build", p, out.error)

build(p, f) ==
    /\ inv.pc = "idle"
    /\ build_commit(p, f, build_result(p, pipelines[p], f, functions[f], options))
    /\ UNCHANGED <<app, pipelines, config, inv, heap, finished>>

\* ------------------------------------------------------------------------
\* The adapter (pipeline.py, Pipeline.build.adapter) and the handler chain
\* ------------------------------------------------------------------------
NoBinding == [error |-> NoError, named |-> EmptyDict, star |-> <<>>, starstar |-> EmptyDict]

\* The Invocation of the adapter call in progress, with what the model
\* records about it.  _context is the Invocation's _context field (0 for
\* None, else the id of its InvocationContext), contexts the number of
\* InvocationContext objects made for it, accesses the values its
\* command_context property returned, context_value the object
\* resolve_call_arguments injects (what CTX stands for), seen what the
\* middlewares and the command read from the state mapping, exception the
\* exception leaving the chain.
Idle ==
    [pc |-> "idle", adapter |-> 0, serial |-> 0, factory |-> "", state |-> 0,
     call |-> InvocationCall(<<>>, EmptyDict), entry_state |-> EmptyDict,
     depth |-> 0, trace |-> <<>>,
     resolved |-> InvocationCall(<<>>, EmptyDict), received |-> NoBinding,
     result |-> "none", exception |-> NoError,
     _context |-> 0, contexts |-> 0, accesses |-> <<>>, context_value |-> 0,
     seen |-> <<>>, environment_context |-> PyNone]

Event(kind, who) == [kind |-> kind, who |-> who]

\* What who read at a point of the chain: the state mapping, and the
\* value it was handed.
Observation(who, at, depth, state, value) ==
    [who |-> who, at |-> at, depth |-> depth, state |-> state, value |-> value]

\* The behaviour of a middleware of the model, by id: plain ones run a pre
\* step, call next and run a post step; a guarded one runs its post step in
\* a finally block; the raising ones raise before or after calling next;
\* the others are the wrappers TyperPlus.before_invoke and after_invoke
\* make around a hook.
MiddlewareKind(mw) ==
    CASE mw = "G" -> "guarded"
      [] mw = "R" -> "raises before next"
      [] mw = "X" -> "raises after next"
      [] mw \in {"before1", "before2"} -> "before_invoke"
      [] mw \in {"after1", "after2"} -> "after_invoke"
      [] OTHER -> "plain"

\* Invocation.command_context (and its alias ctx): the Invocation after
\* the access and the InvocationContext returned.
command_context(r) ==
    IF r._context = 0
    THEN [inv |-> [r EXCEPT !._context = r.contexts + 1, !.contexts = @ + 1,
                            !.accesses = Append(@, r.contexts + 1)],
          value |-> r.contexts + 1]
    ELSE [inv |-> [r EXCEPT !.accesses = Append(@, r._context)], value |-> r._context]

\* An InvocationContext whose state is a copy taken when the chain was
\* entered.
InvocationContext_state_copied(r, h) == r.entry_state

\* InvocationContext.state: the state mapping of its Invocation.
InvocationContext_state(r, h) == h[r.state]

\* InvocationContext.get_state(key, default)
get_state(r, h, key, default) == DictGet(InvocationContext_state(r, h), key, default)

\* The finally blocks an exception passes on its way out of the chain:
\* those of the guarded middlewares entered, innermost first.
RECURSIVE cleanup_events(_, _)
cleanup_events(handler, depth) ==
    IF depth = 0 THEN <<>>
    ELSE (IF MiddlewareKind(handler[depth]) = "guarded"
          THEN <<Event("cleanup", handler[depth])>> ELSE <<>>)
         \o cleanup_events(handler, depth - 1)

\* A handler chain in which every middleware catches what its next raises
\* and goes on with its post step.
raise_exception_swallowed(r, exception, handler) ==
    [r EXCEPT !.pc = "unwind", !.exception = NoError, !.result = "none"]

\* An exception raised inside the chain at depth r.depth: no handler of the
\* chain catches it, so it leaves the adapter.
raise_exception(r, exception, handler) ==
    [r EXCEPT !.pc = "raised", !.exception = exception, !.result = "none",
              !.trace = @ \o cleanup_events(handler, r.depth)]

\* What a middleware of the model writes into inv.state under its own id:
\* a token naming the invocation it runs in.
InvToken(serial) ==
    CASE serial = 1 -> "inv1" [] serial = 2 -> "inv2" [] serial = 3 -> "inv3"
      [] serial = 4 -> "inv4" [] OTHER -> "inv?"

\* A factory whose default state is one dict object made once and reused.
default_factory_reusing_state(h) == [state |-> 1, heap |-> h]

\* _default_invocation_factory, called by the adapter without a state:
\* state or {} is a new dict object.
_default_invocation_factory(h) == [state |-> Len(h) + 1, heap |-> Append(h, EmptyDict)]

\* A custom factory that hands every Invocation the same dict object, the
\* one allocated first.
shared_state_factory(h) == [state |-> 1, heap |-> h]

invocation_factory(factory, h) ==
    IF factory = DefaultFactory THEN _default_invocation_factory(h) ELSE shared_state_factory(h)

\* for virtual in current_virtual_params: ... inv.state[state_key] = value
RECURSIVE record_virtual_state(_, _, _)
record_virtual_state(virtuals, kwargs, state) ==
    IF virtuals = <<>> THEN state
    ELSE LET virtual == Head(virtuals)
             got == DictGet(kwargs, virtual.name, virtual.default_value)
             value == IF got = SigEmpty THEN PyNone ELSE got
         IN  IF virtual.state_key \notin {NoStateKey, ""}
             THEN record_virtual_state(Tail(virtuals), kwargs, DictSet(state, virtual.state_key, value))
             ELSE record_virtual_state(Tail(virtuals), kwargs, state)

\* The ambient context lookup of the adapter.  A lookup (the module's
\* get_current_context, called with silent=True) is absent from the
\* module, returns None, returns the current context, or raises
\* RuntimeError or another exception.
LookupAbsent == "not callable"
LookupContext == "click.Context"
ErrLookupRuntime == "RuntimeError raised by get_current_context"
ErrLookupOther == "LookupError raised by get_current_context"

\* try: context = get_context(silent=True) / except RuntimeError: context = None
try_get_context(lookup) ==
    CASE lookup = LookupAbsent -> [context |-> PyNone, error |-> NoError]
      [] lookup = ErrLookupRuntime -> [context |-> PyNone, error |-> NoError]
      [] lookup = ErrLookupOther -> [context |-> PyNone, error |-> lookup]
      [] OTHER -> [context |-> lookup, error |-> NoError]

\* typer.get_current_context first, click.get_current_context when that
\* gave no context.
ambient_context(typer_lookup, click_lookup) ==
    IF try_get_context(typer_lookup).error # NoError
           \/ try_get_context(typer_lookup).context # PyNone
    THEN try_get_context(typer_lookup)
    ELSE try_get_context(click_lookup)

\* The adapter's loop over current_virtual_params, on the Invocation the
\* factory made for the environment holding context.
adapter_enter(a, call, factory, made, context) ==
    /\ heap' = [made.heap EXCEPT ![made.state] =
                   record_virtual_state(adapters[a].current_virtual_params, call.kwargs, @)]
    /\ inv' = [Idle EXCEPT !.pc = "handler", !.adapter = a,
                           !.serial = Len(finished) + 1,
                           !.factory = factory, !.state = made.state,
                           !.call = call,
                           !.environment_context = context,
                           !.entry_state =
                               record_virtual_state(adapters[a].current_virtual_params,
                                                    call.kwargs, made.heap[made.state])]

\* The adapter left by the exception of a lookup: no Invocation is made
\* and no handler is called.
adapter_lookup_raises(a, call, error) ==
    /\ heap' = heap
    /\ inv' = [Idle EXCEPT !.pc = "raised", !.adapter = a,
                           !.serial = Len(finished) + 1,
                           !.call = call, !.exception = error]

\* adapter(*args, **kwargs) up to the call of handler(inv), in a process
\* whose lookups behave as typer_lookup and click_lookup.  The factory is
\* read from the Pipeline when the adapter is called.
AdapterCallIn(a, call, typer_lookup, click_lookup) ==
    /\ inv.pc = "idle"
    /\ a \in DOMAIN adapters
    /\ Len(finished) < MaxInvocations
    /\ IF ambient_context(typer_lookup, click_lookup).error # NoError
       THEN adapter_lookup_raises(a, call, ambient_context(typer_lookup, click_lookup).error)
       ELSE adapter_enter(a, call, pipelines[adapters[a].self].invocation_factory,
                invocation_factory(pipelines[adapters[a].self].invocation_factory, heap),
                ambient_context(typer_lookup, click_lookup).context)
    /\ UNCHANGED <<app, functions, options, pipelines, config, adapters, finished, last>>

\* The adapter called outside any command context: typer exposes no
\* lookup and click's returns None.
AdapterCall(a, call) == AdapterCallIn(a, call, LookupAbsent, PyNone)

\* A middleware's handler up to its call of next(inv): it reads the state
\* mapping and writes its token into it.
MiddlewareEnter ==
    /\ inv.pc = "handler"
    /\ inv.depth < Len(adapters[inv.adapter].handler)
    /\ MiddlewareKind(adapters[inv.adapter].handler[inv.depth + 1]) \in {"plain", "guarded"}
    /\ LET mw == adapters[inv.adapter].handler[inv.depth + 1]
       IN  /\ heap' = [heap EXCEPT ![inv.state] = DictSet(@, mw, InvToken(inv.serial))]
           /\ inv' = [inv EXCEPT !.depth = @ + 1, !.trace = Append(@, Event("pre", mw)),
                                 !.seen = Append(@, Observation(mw, "pre", inv.depth,
                                                                heap[inv.state], "none"))]
    /\ UNCHANGED <<app, functions, options, pipelines, config, adapters, finished, last>>

BodyError == "RuntimeError raised by the command body"

\* Whether the command holds the InvocationContext in one of its
\* parameters.
CommandHoldsContext(received) ==
    \/ \E n \in DOMAIN received.named : received.named[n] = CTX
    \/ CTX \in SeqRange(received.star)
    \/ \E n \in DOMAIN received.starstar : received.starstar[n] = CTX

\* func(*args, **kwargs) on a function object: a def binds the call; a
\* wrapper binds it to its own parameters and calls the function it wraps,
\* the template wrapper without arguments, the others with the arguments
\* their *args and **kwargs took.  received is the binding that raised or
\* that of the def; events are the wrappers that recorded their run.
RECURSIVE call_through(_, _, _)
call_through(func, call, keys) ==
    LET bound == BindCallOrdered(func.code, call, keys)
        inner == IF func.wrapper = "template"
                 THEN call_through(func.wrapped[1], InvocationCall(<<>>, EmptyDict), <<>>)
                 ELSE call_through(func.wrapped[1], InvocationCall(bound.star, bound.starstar),
                                   KeysIn(keys, DOMAIN bound.starstar))
    IN  IF func.wrapped = <<>> \/ bound.error # NoError
        THEN [received |-> bound, events |-> <<>>]
        ELSE IF func.wrapper \in {"template", "_ensure_context_parameter"} THEN inner
        ELSE [inner EXCEPT !.events = <<[kind |-> "wrapper", who |-> func.wrapper]>> \o @]

\* self.target(*args, **kwargs) on the resolved arguments, r being the
\* Invocation after resolve_call_arguments: a call that does not bind
\* raises TypeError; otherwise the body runs, reads the state (state) and
\* the middlewares' keys (got, by get_state) through the context it holds,
\* and returns or raises.  The target is the decorated function: the
\* wrappers of its decorators run first, outermost first.
call_target(r, received, body, state, got, handler, wrappers) ==
    inv' = IF received.error # NoError
           THEN raise_exception([r EXCEPT !.trace = @ \o wrappers \o <<Event("raise", "call")>>],
                                received.error, handler)
           ELSE IF body = "raises"
           THEN raise_exception([r EXCEPT !.trace = @ \o wrappers
                                                     \o <<Event("call", "target"),
                                                          Event("raise", "target")>>],
                                BodyError, handler)
           ELSE [r EXCEPT !.pc = "unwind", !.result = "target result",
                          !.trace = @ \o wrappers \o <<Event("call", "target")>>,
                          !.seen = IF CommandHoldsContext(received)
                                   THEN Append(@, Observation("target", "call", r.depth,
                                                              state, got))
                                   ELSE @]

\* resolve_call_arguments on the Invocation: context_value =
\* self.command_context, then the walk.
resolved_invocation(accessed, resolved, received) ==
    [accessed.inv EXCEPT !.context_value = accessed.value,
                         !.resolved = resolved, !.received = received]

\* self.target(*args, **kwargs) once the arguments are resolved.
invoke_resolved(body, resolved, called) ==
    call_target(
        resolved_invocation(command_context(inv), resolved, called.received),
        called.received,
        body,
        InvocationContext_state(inv, heap),
        [key \in SeqRange(adapters[inv.adapter].handler) |-> get_state(inv, heap, key, PyNone)],
        adapters[inv.adapter].handler,
        called.events)

\* base(inv): Invocation.invoke_target, with a command body that returns
\* or raises.
invoke_target_with(body) ==
    /\ inv.pc = "handler"
    /\ inv.depth = Len(adapters[inv.adapter].handler)
    /\ invoke_resolved(body,
           resolve_call_arguments(functions[adapters[inv.adapter].target], inv.call),
           call_through(functions[adapters[inv.adapter].target],
               resolve_call_arguments(functions[adapters[inv.adapter].target], inv.call),
               resolved_keys(functions[adapters[inv.adapter].target], inv.call)))
    /\ UNCHANGED <<app, functions, options, pipelines, config, adapters, heap, finished, last>>

\* A call the target cannot bind raises TypeError, which no middleware of
\* the model catches.
invoke_target == invoke_target_with("returns")

invoke_target_raising == invoke_target_with("raises")

\* A middleware's handler after next(inv) has returned: its post step; it
\* returns what next returned.
MiddlewareExit ==
    /\ inv.pc = "unwind"
    /\ inv.depth > 0
    /\ MiddlewareKind(adapters[inv.adapter].handler[inv.depth]) \in {"plain", "guarded"}
    /\ LET mw == adapters[inv.adapter].handler[inv.depth]
       IN  inv' = [inv EXCEPT !.depth = @ - 1,
                              !.trace = @ \o (IF MiddlewareKind(mw) = "guarded"
                                              THEN <<Event("cleanup", mw)>> ELSE <<>>)
                                         \o <<Event("post", mw)>>,
                              !.seen = Append(@, Observation(mw, "post", inv.depth,
                                                             heap[inv.state], inv.result))]
    /\ UNCHANGED <<app, functions, options, pipelines, config, adapters, heap, finished, last>>

\* A middleware that raises: before calling next (it is the next one to
\* enter) or after next has returned.
MiddlewareError(mw) == IF mw = "R" THEN "RuntimeError raised by R" ELSE "RuntimeError raised by X"

MiddlewareRaise ==
    \/ /\ inv.pc = "handler"
       /\ inv.depth < Len(adapters[inv.adapter].handler)
       /\ MiddlewareKind(adapters[inv.adapter].handler[inv.depth + 1]) = "raises before next"
       /\ inv' = raise_exception(
                     [inv EXCEPT !.trace = Append(@, Event("raise",
                                     adapters[inv.adapter].handler[inv.depth + 1]))],
                     MiddlewareError(adapters[inv.adapter].handler[inv.depth + 1]),
                     adapters[inv.adapter].handler)
       /\ UNCHANGED <<app, functions, options, pipelines, config, adapters, heap, finished, last>>
    \/ /\ inv.pc = "handler"
       /\ inv.depth < Len(adapters[inv.adapter].handler)
       /\ MiddlewareKind(adapters[inv.adapter].handler[inv.depth + 1]) = "raises after next"
       /\ inv' = [inv EXCEPT !.depth = @ + 1,
                             !.trace = Append(@, Event("pre",
                                           adapters[inv.adapter].handler[inv.depth + 1]))]
       /\ UNCHANGED <<app, functions, options, pipelines, config, adapters, heap, finished, last>>
    \/ /\ inv.pc = "unwind"
       /\ inv.depth > 0
       /\ MiddlewareKind(adapters[inv.adapter].handler[inv.depth]) = "raises after next"
       /\ inv' = raise_exception(
                     [inv EXCEPT !.depth = @ - 1,
                                 !.trace = Append(@, Event("raise",
                                               adapters[inv.adapter].handler[inv.depth]))],
                     MiddlewareError(adapters[inv.adapter].handler[inv.depth]),
                     adapters[inv.adapter].handler)
       /\ UNCHANGED <<app, functions, options, pipelines, config, adapters, heap, finished, last>>

\* The adapter returns handler(inv), or the exception leaves it.
AdapterReturn ==
    /\ inv.pc \in {"unwind", "raised"}
    /\ inv.pc = "unwind" => inv.depth = 0
    /\ finished' = Append(finished, inv)
    /\ inv' = Idle
    /\ UNCHANGED <<app, functions, options, pipelines, config, adapters, heap, last>>

\* ------------------------------------------------------------------------
\* Spec: one or two Pipelines configured with middlewares and an invocation
\* factory, built on a command without parameters, and the adapters
\* invoked.
\* ------------------------------------------------------------------------
MiddlewareIds == {"A", "B"}

Factories == {DefaultFactory, SharedStateFactory}

NoCall == InvocationCall(<<>>, EmptyDict)

NoConfig ==
    [decorators |-> <<>>, middlewares |-> <<>>, invocation_factory |-> "None",
     param_type_hooks |-> <<>>, virtual_options |-> <<>>]

Init ==
    /\ functions = [f \in {"f"} |-> FunctionObject(<<>>)]
    /\ options = EmptyDict
    /\ pipelines = [p \in {"p", "q"} |-> Pipeline(<<>>, <<>>, "None")]
    /\ config = NoConfig
    /\ adapters = <<>>
    /\ inv = Idle
    /\ heap = <<EmptyDict>>
    /\ finished = <<>>
    /\ last = Outcome("init", "", NoError)
    /\ app = TyperPlus(NoPipeline)

Configuring == inv.pc = "idle" /\ Len(finished) < MaxInvocations

Next ==
    \/ \E mw \in MiddlewareIds :
          /\ Configuring
          /\ Len(pipelines["p"].middlewares) < MaxMiddlewares
          /\ use("p", mw)
    \/ \E fac \in Factories :
          /\ Configuring
          /\ pipelines["p"].invocation_factory # fac
          /\ set_invocation_factory("p", fac)
    \/ /\ Configuring
       /\ Len(adapters) < MaxAdapters
       /\ build("p", "f")
    \/ \E a \in DOMAIN adapters : AdapterCall(a, NoCall)
    \/ MiddlewareEnter
    \/ invoke_target
    \/ MiddlewareExit
    \/ AdapterReturn

Spec == Init /\ [][Next]_vars

\* ------------------------------------------------------------------------
\* Properties of Spec
\* ------------------------------------------------------------------------
Invocations == {finished[i] : i \in DOMAIN finished} \cup (IF inv.pc = "idle" THEN {} ELSE {inv})

RECURSIVE Events(_, _)
Events(kind, mws) ==
    IF mws = <<>> THEN <<>> ELSE <<Event(kind, Head(mws))>> \o Events(kind, Tail(mws))

ExpectedTrace(mws) ==
    Events("pre", mws) \o <<Event("call", "target")>> \o Events("post", Reverse(mws))

IsPrefix(s, t) == Len(s) <= Len(t) /\ \A i \in DOMAIN s : s[i] = t[i]

\* C1: with middlewares m1..mn registered in that order when build() ran,
\* every invocation of the adapter observes m1-pre, ..., mn-pre, the target
\* call, mn-post, ..., m1-post, and the adapter returns the target's
\* result.
C1_MiddlewareOrder ==
    \A r \in Invocations :
        LET expected == ExpectedTrace(adapters[r.adapter].built_from.middlewares)
        IN  /\ IsPrefix(r.trace, expected)
            /\ (r.pc = "unwind" /\ r.depth = 0) => (r.trace = expected /\ r.result = "target result")

C1_Witness ==
    \E i \in DOMAIN finished :
        /\ adapters[finished[i].adapter].built_from.middlewares = <<"A", "B">>
        /\ Len(finished[i].trace) = 5

\* C10: with the default invocation factory every adapter invocation has
\* its own state dict: nothing written in another invocation is in it when
\* the chain is entered, and all a middleware wrote into it was written in
\* this invocation.
C10_StateIsolation ==
    \A r \in Invocations :
        r.factory = DefaultFactory =>
            /\ DOMAIN r.entry_state \cap MiddlewareIds = {}
            /\ \A k \in DOMAIN heap[r.state] \cap MiddlewareIds :
                   heap[r.state][k] = InvToken(r.serial)
            /\ \A r2 \in Invocations : r2.serial # r.serial => r2.state # r.state

C10_Witness ==
    /\ Len(finished) = 2
    /\ \A i \in DOMAIN finished :
          /\ finished[i].factory = DefaultFactory
          /\ "A" \in DOMAIN heap[finished[i].state]
    /\ finished[1].adapter # finished[2].adapter

\* ------------------------------------------------------------------------
\* SpecFrozen: one Pipeline that keeps being configured after build(), and
\* the adapters built earlier invoked afterwards.
\* ------------------------------------------------------------------------
BoolType == AnnClass("bool")

\* The calls the framework can make: those inspect.Signature.bind accepts
\* for the signature the adapter publishes.  Unlike a call, bind refuses a
\* keyword naming a positional-only parameter no positional argument fills.
Binds(signature, call) ==
    /\ BindCall(signature, call).error = NoError
    /\ \A i \in DOMAIN signature :
           (signature[i].kind = PO /\ signature[i].name \in DOMAIN call.kwargs) =>
               BindCall(signature, call).named[signature[i].name] # DEFAULT

MaxFrozenAdapters == 1

FrozenCalls == {NoCall, InvocationCall(<<>>, [k \in {"v"} |-> "True"])}

NextFrozen ==
    \/ \E mw \in MiddlewareIds :
          /\ Configuring
          /\ Len(pipelines["p"].middlewares) < MaxMiddlewares
          /\ use("p", mw)
    \/ /\ Configuring
       /\ pipelines["p"].decorators = <<>>
       /\ use_decorator("p", "D")
    \/ /\ Configuring
       /\ pipelines["p"].param_hooks = <<>>
       /\ register_param_type("p", "Token", NewOptionFactory, "TokenParser")
    \/ /\ Configuring
       /\ pipelines["p"].virtual_params = <<>>
       /\ add_virtual_option("p", "v", "False", BoolType, NoStateKey, TRUE)
    \/ \E fac \in Factories :
          /\ Configuring
          /\ pipelines["p"].invocation_factory # fac
          /\ set_invocation_factory("p", fac)
    \/ /\ Configuring
       /\ Len(adapters) < MaxFrozenAdapters
       /\ build("p", "f")
    \/ \E a \in DOMAIN adapters, call \in FrozenCalls :
          /\ Binds(adapters[a].signature, call)
          /\ AdapterCall(a, call)
    \/ MiddlewareEnter
    \/ invoke_target
    \/ MiddlewareExit
    \/ AdapterReturn

SpecFrozen == Init /\ [][NextFrozen]_vars

\* The events of the handler chain: the middlewares' steps and the call of
\* the target (not the wrappers of the decorators inside the target).
ChainEvent(e) == e.kind \in {"pre", "call", "post"}

\* C8: whatever is configured on the Pipeline after build(), an invocation
\* of the adapter runs the middleware chain, records the virtual options
\* and uses the invocation factory that were in force when it was built
\* (and only wrappers of decorators registered before build() run).
C8_FrozenConfiguration ==
    \A r \in Invocations :
        LET built == adapters[r.adapter].built_from
        IN  /\ IsPrefix(SelectSeq(r.trace, ChainEvent), ExpectedTrace(built.middlewares))
            /\ \A k \in DOMAIN r.trace :
                   r.trace[k].kind = "wrapper" => r.trace[k].who \in SeqRange(built.decorators)
            /\ r.factory = DefaultFactory =>
                   r.entry_state = record_virtual_state(built.virtual_params, r.call.kwargs, EmptyDict)
            /\ r.factory = built.invocation_factory

\* ------------------------------------------------------------------------
\* SpecResolve: a target drawn from a family of signatures with hidden
\* context parameters, a Pipeline with or without virtual options, one
\* build and one call of the adapter.
\* ------------------------------------------------------------------------
MaxResolveAdapters == 1
MaxResolveInvocations == 1

ContextType == AnnClass("InvocationContext")

NameAt == <<"a", "b", "c", "d", "e">>

ParamShapes ==
    [kind : Kinds, default : {SigEmpty, "dflt"}, annotation : {AnnEmpty, ContextType}]

\* What a def statement can declare: one *args and one **kwargs at most,
\* neither with a default; any parameter may be annotated.
IsAnnotatedDef(sig) ==
    /\ SignatureValid(sig)
    /\ \A i, j \in DOMAIN sig : (i < j /\ sig[i].kind = sig[j].kind) => sig[i].kind \notin {VP, VK}
    /\ \A i \in DOMAIN sig : sig[i].kind \in {VP, VK} => sig[i].default = SigEmpty

\* The def statements of the family: names by position, a variadic
\* parameter has no default, a context parameter is a named parameter.
IsDef(sig) ==
    /\ IsAnnotatedDef(sig)
    /\ \A i \in DOMAIN sig : sig[i].kind \in {VP, VK} => sig[i].annotation = AnnEmpty

SignaturesOfLen(n) ==
    {[i \in 1..n |-> Parameter(NameAt[i], s[i].kind, s[i].default, s[i].annotation)] :
        s \in [1..n -> ParamShapes]}

ResolveSignatures == {sig \in UNION {SignaturesOfLen(n) : n \in 0..MaxParams} : IsDef(sig)}

\* The value a call passes at a position and under a keyword.
PositionalValues == <<"p1", "p2", "p3", "p4">>

KeywordValue(n) ==
    CASE n = "a" -> "k_a" [] n = "b" -> "k_b" [] n = "c" -> "k_c" [] n = "v" -> "k_v"
      [] OTHER -> "k_?"

CallKeywords == {"a", "b", "c", "v"}

ResolveCalls ==
    {InvocationCall(SubSeq(PositionalValues, 1, n), [k \in S |-> KeywordValue(k)]) :
        n \in 0..MaxArgs, S \in SUBSET CallKeywords}

VirtualNames == {"v", "a"}

InitResolve ==
    /\ functions \in {[f \in {"f"} |-> FunctionObject(sig)] : sig \in ResolveSignatures}
    /\ options = EmptyDict
    /\ pipelines = [p \in {"p", "q"} |-> Pipeline(<<>>, <<>>, "None")]
    /\ config = NoConfig
    /\ adapters = <<>>
    /\ inv = Idle
    /\ heap = <<EmptyDict>>
    /\ finished = <<>>
    /\ last = Outcome("init", "", NoError)
    /\ app = TyperPlus(NoPipeline)

NextResolve ==
    \/ \E name \in VirtualNames :
          /\ Configuring
          /\ adapters = <<>>
          /\ \A i \in DOMAIN pipelines["p"].virtual_params :
                 pipelines["p"].virtual_params[i].name # name
          /\ add_virtual_option("p", name, "False", BoolType, NoStateKey, TRUE)
    \/ /\ Configuring
       /\ Len(adapters) < MaxResolveAdapters
       /\ build("p", "f")
    \/ \E a \in DOMAIN adapters, call \in ResolveCalls :
          /\ Len(finished) < MaxResolveInvocations
          /\ Binds(adapters[a].signature, call)
          /\ AdapterCall(a, call)
    \/ invoke_target
    \/ AdapterReturn

SpecResolve == InitResolve /\ [][NextResolve]_vars

\* The invocations whose target call has been made.
Called == {r \in Invocations : r.pc \in {"unwind", "raised"}}

\* C2: when a target has hidden context parameters, for every call that
\* binds to the published signature the target is called without error,
\* every parameter of the published signature receives what the call
\* supplied for it (by position or by keyword, the variadic ones included)
\* and every context parameter receives the InvocationContext.
C2_ContextInjection ==
    \A r \in Called :
        LET target == functions[adapters[r.adapter].target]
            supplied == BindCall(adapters[r.adapter].signature, r.call)
        IN  (target.context_param_names # <<>> /\ target.virtual_param_names = <<>>) =>
                /\ r.received.error = NoError
                /\ \A n \in DOMAIN supplied.named : r.received.named[n] = supplied.named[n]
                /\ \A n \in SeqRange(target.context_param_names) : r.received.named[n] = CTX
                /\ r.received.star = supplied.star
                /\ r.received.starstar = supplied.starstar

\* C3: a virtual option of the Pipeline that built the adapter, supplied
\* in the call, is never handed to the target: its name is not a key of
\* the resolved kwargs and its value is not among the resolved args.
C3_VirtualNotForwarded ==
    \A r \in Called :
        \A i \in DOMAIN adapters[r.adapter].current_virtual_params :
            LET name == adapters[r.adapter].current_virtual_params[i].name
            IN  name \in DOMAIN r.call.kwargs =>
                    /\ name \notin DOMAIN r.resolved.kwargs
                    /\ r.call.kwargs[name] \notin SeqRange(r.resolved.args)

\* ------------------------------------------------------------------------
\* PipelineConfig (config.py): an immutable bundle; every add_* returns a
\* new config, to_pipeline() materialises a Pipeline from it.
\* ------------------------------------------------------------------------
VirtualOptionConfig(name, option_default, annotation_type, state_key, store_in_state) ==
    [name |-> name, option_default |-> option_default, annotation_type |-> annotation_type,
     state_key |-> state_key, store_in_state |-> store_in_state]

PipelineConfig_add_virtual_option(name, option_default, annotation_type, state_key, store_in_state) ==
    /\ config' = [config EXCEPT !.virtual_options =
                     Append(@, VirtualOptionConfig(name, option_default, annotation_type,
                                                   state_key, store_in_state))]
    /\ last' = RegistrationOutcome("PipelineConfig.add_virtual_option", "config", name, NoError)
    /\ UNCHANGED <<app, functions, options, pipelines, adapters, inv, heap, finished>>

\* for hook in self.param_type_hooks: hook.apply(pipeline)
RECURSIVE apply_param_type_hooks(_, _)
apply_param_type_hooks(hooks, pipeline) ==
    IF hooks = <<>> THEN pipeline
    ELSE apply_param_type_hooks(Tail(hooks),
             [pipeline EXCEPT !.param_hooks = Append(@, Head(hooks))])

\* for option in self.virtual_options: option.apply(pipeline), left at the
\* first raise.
RECURSIVE apply_virtual_options(_, _)
apply_virtual_options(virtual_options, acc) ==
    IF virtual_options = <<>> \/ acc.error # NoError THEN acc
    ELSE apply_virtual_options(Tail(virtual_options),
             add_virtual_option_to(acc.pipeline, Head(virtual_options).name,
                 Head(virtual_options).option_default, Head(virtual_options).annotation_type,
                 Head(virtual_options).state_key, Head(virtual_options).store_in_state))

to_pipeline_result(cfg) ==
    apply_virtual_options(cfg.virtual_options,
        [pipeline |-> apply_param_type_hooks(cfg.param_type_hooks,
                          Pipeline(cfg.decorators, cfg.middlewares, cfg.invocation_factory)),
         error |-> NoError])

to_pipeline_commit(p, out) ==
    /\ pipelines' = IF out.error = NoError THEN [pipelines EXCEPT ![p] = out.pipeline]
                    ELSE pipelines
    /\ last' = Outcome("to_pipeline", p, out.error)

\* p = config.to_pipeline(); p is not assigned when the call raises.
to_pipeline(p) ==
    /\ to_pipeline_commit(p, to_pipeline_result(config))
    /\ UNCHANGED <<app, functions, options, config, adapters, inv, heap, finished>>

\* ------------------------------------------------------------------------
\* SpecRegister: virtual options registered on a Pipeline and on a
\* PipelineConfig, the config materialised into a second Pipeline, and
\* builds by both.
\* ------------------------------------------------------------------------
MaxRegistered == 2

RegisterNames == {"v", "w"}

NextRegister ==
    \/ \E name \in RegisterNames :
          /\ Len(pipelines["p"].virtual_params) < MaxRegistered
          /\ add_virtual_option("p", name, "False", BoolType, NoStateKey, TRUE)
    \/ \E name \in RegisterNames :
          /\ Len(config.virtual_options) < MaxRegistered
          /\ PipelineConfig_add_virtual_option(name, "False", BoolType, NoStateKey, TRUE)
    \/ to_pipeline("q")
    \/ \E p \in {"p", "q"} :
          /\ Len(adapters) < MaxAdapters
          /\ build(p, "f")

SpecRegister == Init /\ [][NextRegister]_vars

NamesIn(list) == {list[i].name : i \in DOMAIN list}

\* C6: a registration of a virtual option under a name that is already
\* registered, through Pipeline.add_virtual_option or through
\* PipelineConfig.add_virtual_option, raises in that call and leaves the
\* registered options as they were.
C6_DuplicateRejected ==
    [][ /\ (last'.op = "add_virtual_option"
              /\ last'.name \in NamesIn(pipelines[last'.who].virtual_params))
           => (last'.error = ErrDuplicateVirtual /\ pipelines' = pipelines)
        /\ (last'.op = "PipelineConfig.add_virtual_option"
              /\ last'.name \in NamesIn(config.virtual_options))
           => (last'.error = ErrDuplicateVirtual /\ config' = config) ]_vars

\* ------------------------------------------------------------------------
\* SpecVirtual: virtual options with defaults, state keys and
\* store_in_state flags registered on a Pipeline holding one middleware,
\* one build, and calls of the adapter supplying some of the options.
\* ------------------------------------------------------------------------
MaxVirtualAdapters == 1
MaxVirtualInvocations == 1

OptionDefaults == {"False", SigEmpty}

StateKeys == {NoStateKey, "k"}

VirtualCalls == {InvocationCall(<<>>, [k \in S |-> "True"]) : S \in SUBSET RegisterNames}

InitVirtual ==
    /\ functions = [f \in {"f"} |-> FunctionObject(<<>>)]
    /\ options = EmptyDict
    /\ pipelines = [p \in {"p", "q"} |-> Pipeline(<<>>, <<"A">>, "None")]
    /\ config = NoConfig
    /\ adapters = <<>>
    /\ inv = Idle
    /\ heap = <<EmptyDict>>
    /\ finished = <<>>
    /\ last = Outcome("init", "", NoError)
    /\ app = TyperPlus(NoPipeline)

NextVirtual ==
    \/ \E name \in RegisterNames, d \in OptionDefaults, key \in StateKeys, store \in BOOLEAN :
          /\ Configuring
          /\ Len(pipelines["p"].virtual_params) < MaxRegistered
          /\ add_virtual_option("p", name, d, BoolType, key, store)
    \/ /\ Configuring
       /\ Len(adapters) < MaxVirtualAdapters
       /\ build("p", "f")
    \/ \E a \in DOMAIN adapters, call \in VirtualCalls :
          /\ Len(finished) < MaxVirtualInvocations
          /\ Binds(adapters[a].signature, call)
          /\ AdapterCall(a, call)
    \/ MiddlewareEnter
    \/ invoke_target
    \/ MiddlewareExit
    \/ AdapterReturn

SpecVirtual == InitVirtual /\ [][NextVirtual]_vars

\* The value the adapter is to record for a virtual option: the one the
\* call supplies, else the option's default, the unset sentinel as None.
RecordedValue(virtual, kwargs) ==
    IF virtual.name \in DOMAIN kwargs THEN kwargs[virtual.name]
    ELSE IF virtual.default_value = SigEmpty THEN PyNone
    ELSE virtual.default_value

\* C4: when the handler chain of an adapter invocation is entered, the
\* state holds under the state key of every virtual option of the adapter
\* the value supplied for that option, or its default (None for the unset
\* sentinel), and holds no other key: an option registered with
\* store_in_state=False has no state key and writes nothing.
C4_VirtualStateRecorded ==
    \A r \in Invocations :
        LET virtuals == adapters[r.adapter].current_virtual_params
            keyed == {i \in DOMAIN virtuals : virtuals[i].state_key # NoStateKey}
        IN  /\ DOMAIN r.entry_state = {virtuals[i].state_key : i \in keyed}
            /\ \A i \in keyed :
                   r.entry_state[virtuals[i].state_key] = RecordedValue(virtuals[i], r.call.kwargs)

\* ------------------------------------------------------------------------
\* SpecBuild: a target drawn from a family of annotated signatures (named
\* parameters, *args and keyword-only parameters), two Pipelines
\* configured with parameter-type hooks and virtual options, and builds of
\* the same function object by either Pipeline.
\* ------------------------------------------------------------------------
MaxBuildParams == 2
MaxHooks == 2
MaxOtherHooks == 1

TokenType == AnnClass("Token")

\* The option descriptor a target's Annotated metadata already carries.
DeclaredOption == MetaOption(1)

\* The context type is named by the class, by a bare string, and by a
\* string inside Annotated[...] and Optional[...].
BuildAnnotations ==
    {AnnEmpty, TokenType, AnnClass("SubToken"), AnnOptional(TokenType),
     AnnAnnotated(TokenType, <<DeclaredOption>>),
     ContextType, AnnStr("InvocationContext"), AnnStr("CommandContext"),
     AnnAnnotated(AnnStr("InvocationContext"), <<MetaOther(1)>>),
     AnnOptional(AnnStr("CommandContext"))}

\* Named parameters of every annotation, a *args that is bare, of the
\* hooks' type or declared with an option, and a required keyword-only
\* parameter of the hooks' type.
BuildShapes ==
    [kind : {PK}, default : {SigEmpty, "dflt"}, annotation : BuildAnnotations]
        \cup [kind : {VP}, default : {SigEmpty},
              annotation : {AnnEmpty, TokenType, AnnAnnotated(TokenType, <<DeclaredOption>>)}]
        \cup [kind : {KO}, default : {SigEmpty}, annotation : {TokenType}]

BuildSignatures ==
    {sig \in UNION {{[i \in 1..n |-> Parameter(NameAt[i], s[i].kind, s[i].default, s[i].annotation)] :
                        s \in [1..n -> BuildShapes]} : n \in 0..MaxBuildParams} : IsAnnotatedDef(sig)}

HookChoices ==
    {ParamTypeHook("Token", NoFactory, UnsetParser),
     ParamTypeHook("Token", NewOptionFactory, "TokenParser"),
     ParamTypeHook("SubToken", NewOptionFactory, UnsetParser)}

InitBuild ==
    /\ functions \in {[f \in {"f"} |-> FunctionObject(sig)] : sig \in BuildSignatures}
    /\ options = [i \in {DeclaredOption.id} |-> UnsetParser]
    /\ pipelines = [p \in {"p", "q"} |-> Pipeline(<<>>, <<>>, "None")]
    /\ config = NoConfig
    /\ adapters = <<>>
    /\ inv = Idle
    /\ heap = <<EmptyDict>>
    /\ finished = <<>>
    /\ last = Outcome("init", "", NoError)
    /\ app = TyperPlus(NoPipeline)

NextBuild ==
    \/ \E p \in {"p", "q"}, hook \in HookChoices :
          /\ adapters = <<>>
          /\ Len(pipelines[p].param_hooks) < (IF p = "p" THEN MaxHooks ELSE MaxOtherHooks)
          /\ register_param_type(p, hook.param_type, hook.option_factory, hook.parser_factory)
    \/ \E name \in VirtualNames :
          /\ adapters = <<>>
          /\ pipelines["p"].virtual_params = <<>>
          /\ add_virtual_option("p", name, "False", BoolType, NoStateKey, TRUE)
    \/ \E p \in {"p", "q"} :
          /\ Len(adapters) < MaxAdapters
          /\ build(p, "f")

SpecBuild == InitBuild /\ [][NextBuild]_vars

\* ------------------------------------------------------------------------
\* Properties of SpecBuild
\* ------------------------------------------------------------------------
\* An annotation naming the invocation-context type: the class (or its
\* alias CommandContext, the same object) or a string naming either, bare
\* or inside Annotated[...] or Optional[...], where typing keeps the string
\* as a ForwardRef.
NamesContextType(annotation) ==
    LET base == IF annotation.tag = "annotated" THEN annotation.args[1] ELSE annotation
    IN  \E n \in _CONTEXT_TYPE_SENTINELS :
            base \in {ContextType, AnnOptional(ContextType),
                      AnnStr(n), AnnForwardRef(n), AnnOptional(AnnStr(n))}

RECURSIVE OtherParamNames(_)
OtherParamNames(sig) ==
    IF sig = <<>> THEN <<>>
    ELSE IF NamesContextType(Head(sig).annotation) THEN OtherParamNames(Tail(sig))
    ELSE <<Head(sig).name>> \o OtherParamNames(Tail(sig))

RECURSIVE Restrict(_, _)
Restrict(names, S) ==
    IF names = <<>> THEN <<>>
    ELSE IF Head(names) \in S THEN <<Head(names)>> \o Restrict(Tail(names), S)
    ELSE Restrict(Tail(names), S)

\* C5: the signature an adapter publishes has no parameter annotated with
\* the invocation-context type (the class, its alias, or a string forward
\* reference naming them), and has the other parameters of the target
\* function in the order of its def.
C5_ContextHidden ==
    \A i \in DOMAIN adapters :
        LET published == adapters[i].signature
            others == OtherParamNames(functions[adapters[i].target].code)
        IN  /\ \A k \in DOMAIN published : ~NamesContextType(published[k].annotation)
            /\ Restrict(NamesOf(published), SeqRange(others)) = others

\* A parameter annotation the hook for param_type matches, and one that
\* carries an option descriptor.
MatchesHookType(annotation, param_type) ==
    LET base == IF annotation.tag = "annotated" THEN annotation.args[1] ELSE annotation
    IN  \E c \in {"Token", "SubToken", "typer.Context", "click.Context"} :
            /\ IsSubclass(c, param_type)
            /\ base \in {AnnClass(c), AnnOptional(AnnClass(c))}

CarriesOption(annotation) ==
    /\ annotation.tag = "annotated"
    /\ \E m \in DOMAIN annotation.meta : annotation.meta[m].kind = "option"

\* C7 as stated: register_param_type never raises.  A build() raises the
\* missing-option error exactly when the Pipeline has a hook without option
\* factory and the function's signature has a parameter of the hook's type
\* that carries no option metadata; a build that raises returns no
\* adapter, and the build leaves the Pipelines as they were.
C7_MissingOptionRaises ==
    [][ LET hooks == pipelines[last'.who].param_hooks
            sig == inspect_signature(functions["f"])
            Bare(i, k) ==
                /\ hooks[i].option_factory = NoFactory
                /\ MatchesHookType(sig[k].annotation, hooks[i].param_type)
                /\ ~CarriesOption(sig[k].annotation)
        IN  /\ last'.op = "register_param_type" => (last'.error = NoError /\ adapters' = adapters)
            /\ last'.op = "build" =>
                  /\ last'.error = ErrMissingOption <=>
                         \E i \in DOMAIN hooks, k \in DOMAIN sig : Bare(i, k)
                  /\ last'.error # NoError => adapters' = adapters
                  /\ last'.error = NoError => Len(adapters') = Len(adapters) + 1
                  /\ pipelines' = pipelines ]_vars

\* C7 amended: register_param_type never raises.  A build() applies the
\* Pipeline's hooks in registration order to the signature it starts from,
\* each hook going through the parameters in order, and raises the
\* missing-option error exactly when it reaches a hook without option
\* factory and a parameter of that hook's type that carries no option
\* metadata and that no earlier hook of the Pipeline matches.  It does not
\* reach them when an earlier step raises another error: a hook matching
\* a *args or **kwargs parameter (which cannot be given the default the
\* hook gives), or a hook leaving a named parameter without default after
\* one with a default (the hooks give every parameter they match a
\* default).  A build that raises returns no adapter, and the build leaves
\* the Pipelines as they were.
C7_MissingOptionRaisesAmended ==
    [][ LET hooks == pipelines[last'.who].param_hooks
            sig == inspect_signature(functions["f"])
            Matches(i, k) == MatchesHookType(sig[k].annotation, hooks[i].param_type)
            HasOption(i, k) ==
                CarriesOption(sig[k].annotation) \/ \E j \in 1..(i - 1) : Matches(j, k)
            MissingAt(i, k) ==
                Matches(i, k) /\ hooks[i].option_factory = NoFactory /\ ~HasOption(i, k)
            RaisesAt(i, k) == Matches(i, k) /\ (MissingAt(i, k) \/ sig[k].kind \in {VP, VK})
            Defaulted(i, k) == sig[k].default # SigEmpty \/ \E j \in 1..i : Matches(j, k)
            BadOrder(i) ==
                /\ \E k \in DOMAIN sig : Matches(i, k)
                /\ \E m, n \in DOMAIN sig :
                       /\ m < n
                       /\ sig[m].kind \in {PO, PK}
                       /\ sig[n].kind \in {PO, PK}
                       /\ Defaulted(i, m)
                       /\ ~Defaulted(i, n)
            Raises(i) == (\E k \in DOMAIN sig : RaisesAt(i, k)) \/ BadOrder(i)
            RaisesMissing(i) ==
                \E k \in DOMAIN sig : MissingAt(i, k) /\ \A m \in 1..(k - 1) : ~RaisesAt(i, m)
        IN  /\ last'.op = "register_param_type" => (last'.error = NoError /\ adapters' = adapters)
            /\ last'.op = "build" =>
                  /\ last'.error = ErrMissingOption <=>
                         \E i \in DOMAIN hooks :
                             RaisesMissing(i) /\ \A j \in 1..(i - 1) : ~Raises(j)
                  /\ last'.error # NoError => adapters' = adapters
                  /\ last'.error = NoError => Len(adapters') = Len(adapters) + 1
                  /\ pipelines' = pipelines ]_vars

C7_Witness ==
    /\ last.op = "build"
    /\ last.error = ErrMissingOption
    /\ Len(pipelines[last.who].param_hooks) = 2
    /\ pipelines[last.who].param_hooks[1].option_factory = NewOptionFactory
    /\ functions["f"].has_signature
    /\ adapters # <<>>

\* C9: an adapter exposes only what the Pipeline that built it registered:
\* a parameter of its signature that the function's def does not have is a
\* virtual option of that Pipeline, and a parameter whose annotation is not
\* the def's was rewritten by a hook of that Pipeline.
C9_IndependentAdapters ==
    \A i \in DOMAIN adapters :
        LET published == adapters[i].signature
            code == functions[adapters[i].target].code
            built == adapters[i].built_from
        IN  /\ \A k \in DOMAIN published :
                   published[k].name \notin ParamNames(code) =>
                       published[k].name \in NamesIn(built.virtual_params)
            /\ \A k \in DOMAIN published, m \in DOMAIN code :
                   (published[k].name = code[m].name
                      /\ published[k].annotation # code[m].annotation) =>
                       \E h \in DOMAIN built.param_hooks :
                           MatchesHookType(code[m].annotation, built.param_hooks[h].param_type)

\* ------------------------------------------------------------------------
\* SpecAnnotation: an annotation drawn from the spellings of plain,
\* optional, multi-armed union and Annotated type expressions; its view is
\* taken, rebuilt, and the view of the rebuilt expression taken.
\* ------------------------------------------------------------------------
MaxMetadata == 2

BaseTypes == {AnnClass("int"), AnnClass("Token"), AnnClass("SubToken")}

OptionalForms == {"Optional[T]", "Union[T, None]", "Union[None, T]", "T | None", "None | T"}

UnionForms ==
    {"Union[T, U]", "Union[T, U, None]", "Union[T, None, U]", "T | U", "T | U | None",
     "Optional[Union[T, U]]"}

\* The type expression Python builds for a spelling.
Spell(form, T, U) ==
    CASE form = "T" -> T
      [] form = "Optional[T]" -> AnnOptional(T)
      [] form = "Union[T, None]" -> typing_Union(<<T, AnnNone>>)
      [] form = "Union[None, T]" -> typing_Union(<<AnnNone, T>>)
      [] form = "T | None" -> or_(T, AnnNone)
      [] form = "None | T" -> or_(AnnNone, T)
      [] form = "Union[T, U]" -> typing_Union(<<T, U>>)
      [] form = "Union[T, U, None]" -> typing_Union(<<T, U, AnnNone>>)
      [] form = "Union[T, None, U]" -> typing_Union(<<T, AnnNone, U>>)
      [] form = "T | U" -> or_(T, U)
      [] form = "T | U | None" -> or_(or_(T, U), AnnNone)
      [] form = "Optional[Union[T, U]]" -> AnnOptional(typing_Union(<<T, U>>))

MetadataItems == {MetaOption(1), MetaOther(1), MetaOther(2)}

Metadata == UNION {[1..n -> MetadataItems] : n \in 0..MaxMetadata}

\* Annotated[spelled, *meta], or the bare expression without metadata.
Envelope(spelled, meta) == IF meta = <<>> THEN spelled ELSE AnnAnnotated(spelled, meta)

AnnotationInput(form, T, U, meta) ==
    [op |-> "annotation", form |-> form, base |-> T, other |-> U, meta |-> meta,
     annotation |-> Envelope(Spell(form, T, U), meta)]

AnnotationInputs ==
    {AnnotationInput(form, T, T, meta) :
        form \in {"T"} \cup OptionalForms, T \in BaseTypes, meta \in Metadata}
    \cup {in \in {AnnotationInput(form, T, U, meta) :
                     form \in UnionForms, T \in BaseTypes, U \in BaseTypes, meta \in Metadata} :
             in.base # in.other}

InitAnnotation ==
    /\ functions = [f \in {"f"} |-> FunctionObject(<<>>)]
    /\ options = [i \in {1} |-> UnsetParser]
    /\ pipelines = [p \in {"p", "q"} |-> Pipeline(<<>>, <<>>, "None")]
    /\ config = NoConfig
    /\ adapters = <<>>
    /\ inv = Idle
    /\ heap = <<EmptyDict>>
    /\ finished = <<>>
    /\ last \in AnnotationInputs
    /\ app = TyperPlus(NoPipeline)

\* view = TyperAnnotation(annotation); rebuilt = view.rebuild();
\* view2 = TyperAnnotation(rebuilt)
ViewRebuildView(in, view, rebuilt) ==
    [op |-> "view", form |-> in.form, base |-> in.base, other |-> in.other, meta |-> in.meta,
     annotation |-> in.annotation, view |-> view, rebuilt |-> rebuilt,
     view2 |-> TyperAnnotation(rebuilt)]

ViewAndRebuild ==
    /\ last.op = "annotation"
    /\ last' = ViewRebuildView(last, TyperAnnotation(last.annotation),
                   rebuild(TyperAnnotation(last.annotation),
                           TyperAnnotation(last.annotation).annotations))
    /\ UNCHANGED <<app, functions, options, pipelines, config, adapters, inv, heap, finished>>

NextAnnotation == ViewAndRebuild

SpecAnnotation == InitAnnotation /\ [][NextAnnotation]_vars

\* C18: Optional[T], Union[T, None] and T | None, bare or inside an
\* Annotated envelope, give a view with type T and optional True; and for
\* every annotation of the family the view of view(a).rebuild() has the
\* type, the optional flag and the metadata tuple of view(a).
C18_OptionalSpellingsAndRoundTrip ==
    last.op = "view" =>
        /\ last.form \in OptionalForms =>
               (last.view.type = last.base /\ last.view.optional = TRUE)
        /\ last.view2.type = last.view.type
        /\ last.view2.optional = last.view.optional
        /\ last.view2.annotations = last.view.annotations

C18_Witness ==
    /\ last.op = "view"
    /\ last.form = "T | None"
    /\ Len(last.meta) = 2
    /\ last.view.optional
    /\ last.rebuilt.tag = "annotated"

\* ------------------------------------------------------------------------
\* LoggerParser (parser/logger.py).  A str is the sequence of the code
\* points of its characters; a value is a record with its type and
\* content.  The character tables are those of the interpreter the package
\* runs on (CPython 3.11, Unicode 14.0.0).
\* ------------------------------------------------------------------------
ERROR == 40
WARNING == 30
INFO == 20
DEBUG == 10

DigitChars == <<"0", "1", "2", "3", "4", "5", "6", "7", "8", "9">>

LowerChars ==
    <<"a", "b", "c", "d", "e", "f", "g", "h", "i", "j", "k", "l", "m",
      "n", "o", "p", "q", "r", "s", "t", "u", "v", "w", "x", "y", "z">>

UpperChars ==
    <<"A", "B", "C", "D", "E", "F", "G", "H", "I", "J", "K", "L", "M",
      "N", "O", "P", "Q", "R", "S", "T", "U", "V", "W", "X", "Y", "Z">>

IndexIn(c, chars) == CHOOSE i \in DOMAIN chars : chars[i] = c

\* ord(c) of the ASCII characters the literals of this module use.
ord(c) ==
    CASE c \in SeqRange(DigitChars) -> 47 + IndexIn(c, DigitChars)
      [] c \in SeqRange(UpperChars) -> 64 + IndexIn(c, UpperChars)
      [] c \in SeqRange(LowerChars) -> 96 + IndexIn(c, LowerChars)
      [] c = " " -> 32
      [] c = "+" -> 43
      [] c = "-" -> 45
      [] c = "." -> 46

\* The str of a sequence of ASCII characters.
Str(chars) == [i \in DOMAIN chars |-> ord(chars[i])]

\* The characters str.strip() removes: the 29 for which str.isspace() is
\* true (tab, newline, the other ASCII controls 11-13 and 28-31, space,
\* U+0085, U+00A0, U+1680, U+2000-U+200A, U+2028, U+2029, U+202F, U+205F,
\* U+3000).
Whitespace ==
    {9, 10, 11, 12, 13, 28, 29, 30, 31, 32, 133, 160, 5760, 8192, 8193, 8194, 8195, 8196,
     8197, 8198, 8199, 8200, 8201, 8202, 8232, 8233, 8239, 8287, 12288}

\* str.strip()
RECURSIVE str_lstrip(_)
str_lstrip(s) == IF s # <<>> /\ Head(s) \in Whitespace THEN str_lstrip(Tail(s)) ELSE s

RECURSIVE str_rstrip(_)
str_rstrip(s) ==
    IF s # <<>> /\ s[Len(s)] \in Whitespace THEN str_rstrip(SubSeq(s, 1, Len(s) - 1)) ELSE s

str_strip(s) == str_rstrip(str_lstrip(s))

\* The decimal digits (category Nd) come in 66 runs of ten, each from the
\* digit zero of a script to its digit nine: the code points of the zeros.
DecimalZeros ==
    {48, 1632, 1776, 1984, 2406, 2534, 2662, 2790, 2918, 3046, 3174, 3302, 3430, 3558, 3664,
     3792, 3872, 4160, 4240, 6112, 6160, 6470, 6608, 6784, 6800, 6992, 7088, 7232, 7248,
     42528, 43216, 43264, 43472, 43504, 43600, 44016, 65296, 66720, 68912, 69734, 69872,
     69942, 70096, 70384, 70736, 70864, 71248, 71360, 71472, 71904, 72016, 72784, 73040,
     73120, 92768, 92864, 93008, 120782, 120792, 120802, 120812, 120822, 123200, 123632,
     125264, 130032}

\* str.isdecimal() of one character, and the digit it denotes.
IsDecimal(c) == \E z \in DecimalZeros : c \in z..(z + 9)

DecimalValue(c) == c - (CHOOSE z \in DecimalZeros : c \in z..(z + 9))

\* The 128 digits that are not decimal (superscripts, subscripts, circled
\* and parenthesised digits, ...), as ranges of code points: str.isdigit()
\* is true for them and int() refuses them.
OtherDigits ==
    {<<178, 179>>, <<185, 185>>, <<4969, 4977>>, <<6618, 6618>>, <<8304, 8304>>,
     <<8308, 8313>>, <<8320, 8329>>, <<9312, 9320>>, <<9332, 9340>>, <<9352, 9360>>,
     <<9450, 9450>>, <<9461, 9469>>, <<9471, 9471>>, <<10102, 10110>>, <<10112, 10120>>,
     <<10122, 10130>>, <<68160, 68163>>, <<69216, 69224>>, <<69714, 69722>>,
     <<127232, 127242>>}

IsDigit(c) == IsDecimal(c) \/ \E r \in OtherDigits : c \in r[1]..r[2]

\* str.isdigit()
str_isdigit(s) == s # <<>> /\ \A i \in DOMAIN s : IsDigit(s[i])

\* sys.int_info.default_max_str_digits: int() refuses longer numerals.
IntMaxStrDigits == 4300

ErrInvalidLiteral == "ValueError: invalid literal for int() with base 10"
ErrIntTooLong == "ValueError: Exceeds the limit (4300 digits) for integer string conversion"

\* The number of decimal digits a string starts with.
LeadingDecimals(s) ==
    IF \A i \in DOMAIN s : IsDecimal(s[i]) THEN Len(s)
    ELSE (CHOOSE i \in DOMAIN s : ~IsDecimal(s[i]) /\ \A j \in 1..(i - 1) : IsDecimal(s[j])) - 1

RECURSIVE int_of_digits(_, _)
int_of_digits(s, acc) ==
    IF s = <<>> THEN acc
    ELSE int_of_digits(Tail(s), acc * 10 + DecimalValue(Head(s)))

\* int(s) of a str without sign, space or underscore: the number its
\* decimal digits denote, in whatever scripts; ValueError when it starts
\* with more decimal digits than the limit allows, or holds a character
\* that is not a decimal digit.
int_of_str(s) ==
    IF LeadingDecimals(s) > IntMaxStrDigits THEN [error |-> ErrIntTooLong, number |-> 0]
    ELSE IF LeadingDecimals(s) < Len(s) THEN [error |-> ErrInvalidLiteral, number |-> 0]
    ELSE [error |-> NoError, number |-> int_of_digits(s, 0)]

\* The characters whose uppercase is one other character, in runs
\* <<first, last, step, uppercase of first>>: every step-th character from
\* first to last maps to the character at the same distance from the
\* uppercase of first.
UpperRuns ==
    {<<97, 122, 1, 65>>, <<181, 181, 1, 924>>, <<224, 246, 1, 192>>, <<248, 254, 1, 216>>,
     <<255, 255, 1, 376>>, <<257, 303, 2, 256>>, <<305, 305, 1, 73>>, <<307, 311, 2, 306>>,
     <<314, 328, 2, 313>>, <<331, 375, 2, 330>>, <<378, 382, 2, 377>>, <<383, 383, 1, 83>>,
     <<384, 384, 1, 579>>, <<387, 389, 2, 386>>, <<392, 392, 1, 391>>, <<396, 396, 1, 395>>,
     <<402, 402, 1, 401>>, <<405, 405, 1, 502>>, <<409, 409, 1, 408>>, <<410, 410, 1, 573>>,
     <<414, 414, 1, 544>>, <<417, 421, 2, 416>>, <<424, 424, 1, 423>>, <<429, 429, 1, 428>>,
     <<432, 432, 1, 431>>, <<436, 438, 2, 435>>, <<441, 441, 1, 440>>, <<445, 445, 1, 444>>,
     <<447, 447, 1, 503>>, <<453, 453, 1, 452>>, <<454, 454, 1, 452>>, <<456, 456, 1, 455>>,
     <<457, 457, 1, 455>>, <<459, 459, 1, 458>>, <<460, 460, 1, 458>>, <<462, 476, 2, 461>>,
     <<477, 477, 1, 398>>, <<479, 495, 2, 478>>, <<498, 498, 1, 497>>, <<499, 499, 1, 497>>,
     <<501, 501, 1, 500>>, <<505, 543, 2, 504>>, <<547, 563, 2, 546>>, <<572, 572, 1, 571>>,
     <<575, 576, 1, 11390>>, <<578, 578, 1, 577>>, <<583, 591, 2, 582>>,
     <<592, 592, 1, 11375>>, <<593, 593, 1, 11373>>, <<594, 594, 1, 11376>>,
     <<595, 595, 1, 385>>, <<596, 596, 1, 390>>, <<598, 599, 1, 393>>, <<601, 601, 1, 399>>,
     <<603, 603, 1, 400>>, <<604, 604, 1, 42923>>, <<608, 608, 1, 403>>,
     <<609, 609, 1, 42924>>, <<611, 611, 1, 404>>, <<613, 613, 1, 42893>>,
     <<614, 614, 1, 42922>>, <<616, 616, 1, 407>>, <<617, 617, 1, 406>>,
     <<618, 618, 1, 42926>>, <<619, 619, 1, 11362>>, <<620, 620, 1, 42925>>,
     <<623, 623, 1, 412>>, <<625, 625, 1, 11374>>, <<626, 626, 1, 413>>,
     <<629, 629, 1, 415>>, <<637, 637, 1, 11364>>, <<640, 640, 1, 422>>,
     <<642, 642, 1, 42949>>, <<643, 643, 1, 425>>, <<647, 647, 1, 42929>>,
     <<648, 648, 1, 430>>, <<649, 649, 1, 580>>, <<650, 651, 1, 433>>, <<652, 652, 1, 581>>,
     <<658, 658, 1, 439>>, <<669, 669, 1, 42930>>, <<670, 670, 1, 42928>>,
     <<837, 837, 1, 921>>, <<881, 883, 2, 880>>, <<887, 887, 1, 886>>,
     <<891, 893, 1, 1021>>, <<940, 940, 1, 902>>, <<941, 943, 1, 904>>,
     <<945, 961, 1, 913>>, <<962, 962, 1, 931>>, <<963, 971, 1, 931>>, <<972, 972, 1, 908>>,
     <<973, 974, 1, 910>>, <<976, 976, 1, 914>>, <<977, 977, 1, 920>>, <<981, 981, 1, 934>>,
     <<982, 982, 1, 928>>, <<983, 983, 1, 975>>, <<985, 1007, 2, 984>>,
     <<1008, 1008, 1, 922>>, <<1009, 1009, 1, 929>>, <<1010, 1010, 1, 1017>>,
     <<1011, 1011, 1, 895>>, <<1013, 1013, 1, 917>>, <<1016, 1016, 1, 1015>>,
     <<1019, 1019, 1, 1018>>, <<1072, 1103, 1, 1040>>, <<1104, 1119, 1, 1024>>,
     <<1121, 1153, 2, 1120>>, <<1163, 1215, 2, 1162>>, <<1218, 1230, 2, 1217>>,
     <<1231, 1231, 1, 1216>>, <<1233, 1327, 2, 1232>>, <<1377, 1414, 1, 1329>>,
     <<4304, 4346, 1, 7312>>, <<4349, 4351, 1, 7357>>, <<5112, 5117, 1, 5104>>,
     <<7296, 7296, 1, 1042>>, <<7297, 7297, 1, 1044>>, <<7298, 7298, 1, 1054>>,
     <<7299, 7300, 1, 1057>>, <<7301, 7301, 1, 1058>>, <<7302, 7302, 1, 1066>>,
     <<7303, 7303, 1, 1122>>, <<7304, 7304, 1, 42570>>, <<7545, 7545, 1, 42877>>,
     <<7549, 7549, 1, 11363>>, <<7566, 7566, 1, 42950>>, <<7681, 7829, 2, 7680>>,
     <<7835, 7835, 1, 7776>>, <<7841, 7935, 2, 7840>>, <<7936, 7943, 1, 7944>>,
     <<7952, 7957, 1, 7960>>, <<7968, 7975, 1, 7976>>, <<7984, 7991, 1, 7992>>,
     <<8000, 8005, 1, 8008>>, <<8017, 8023, 2, 8025>>, <<8032, 8039, 1, 8040>>,
     <<8048, 8049, 1, 8122>>, <<8050, 8053, 1, 8136>>, <<8054, 8055, 1, 8154>>,
     <<8056, 8057, 1, 8184>>, <<8058, 8059, 1, 8170>>, <<8060, 8061, 1, 8186>>,
     <<8112, 8113, 1, 8120>>, <<8126, 8126, 1, 921>>, <<8144, 8145, 1, 8152>>,
     <<8160, 8161, 1, 8168>>, <<8165, 8165, 1, 8172>>, <<8526, 8526, 1, 8498>>,
     <<8560, 8575, 1, 8544>>, <<8580, 8580, 1, 8579>>, <<9424, 9449, 1, 9398>>,
     <<11312, 11359, 1, 11264>>, <<11361, 11361, 1, 11360>>, <<11365, 11365, 1, 570>>,
     <<11366, 11366, 1, 574>>, <<11368, 11372, 2, 11367>>, <<11379, 11379, 1, 11378>>,
     <<11382, 11382, 1, 11381>>, <<11393, 11491, 2, 11392>>, <<11500, 11502, 2, 11499>>,
     <<11507, 11507, 1, 11506>>, <<11520, 11557, 1, 4256>>, <<11559, 11559, 1, 4295>>,
     <<11565, 11565, 1, 4301>>, <<42561, 42605, 2, 42560>>, <<42625, 42651, 2, 42624>>,
     <<42787, 42799, 2, 42786>>, <<42803, 42863, 2, 42802>>, <<42874, 42876, 2, 42873>>,
     <<42879, 42887, 2, 42878>>, <<42892, 42892, 1, 42891>>, <<42897, 42899, 2, 42896>>,
     <<42900, 42900, 1, 42948>>, <<42903, 42921, 2, 42902>>, <<42933, 42947, 2, 42932>>,
     <<42952, 42954, 2, 42951>>, <<42961, 42961, 1, 42960>>, <<42967, 42969, 2, 42966>>,
     <<42998, 42998, 1, 42997>>, <<43859, 43859, 1, 42931>>, <<43888, 43967, 1, 5024>>,
     <<65345, 65370, 1, 65313>>, <<66600, 66639, 1, 66560>>, <<66776, 66811, 1, 66736>>,
     <<66967, 66977, 1, 66928>>, <<66979, 66993, 1, 66940>>, <<66995, 67001, 1, 66956>>,
     <<67003, 67004, 1, 66964>>, <<68800, 68850, 1, 68736>>, <<71872, 71903, 1, 71840>>,
     <<93792, 93823, 1, 93760>>, <<125218, 125251, 1, 125184>>}

\* The characters whose uppercase is several characters: <<character,
\* its uppercase>>.
UpperSpecial ==
    {<<223, <<83, 83>>>>, <<329, <<700, 78>>>>, <<496, <<74, 780>>>>,
     <<912, <<921, 776, 769>>>>, <<944, <<933, 776, 769>>>>, <<1415, <<1333, 1362>>>>,
     <<7830, <<72, 817>>>>, <<7831, <<84, 776>>>>, <<7832, <<87, 778>>>>,
     <<7833, <<89, 778>>>>, <<7834, <<65, 702>>>>, <<8016, <<933, 787>>>>,
     <<8018, <<933, 787, 768>>>>, <<8020, <<933, 787, 769>>>>, <<8022, <<933, 787, 834>>>>,
     <<8064, <<7944, 921>>>>, <<8065, <<7945, 921>>>>, <<8066, <<7946, 921>>>>,
     <<8067, <<7947, 921>>>>, <<8068, <<7948, 921>>>>, <<8069, <<7949, 921>>>>,
     <<8070, <<7950, 921>>>>, <<8071, <<7951, 921>>>>, <<8072, <<7944, 921>>>>,
     <<8073, <<7945, 921>>>>, <<8074, <<7946, 921>>>>, <<8075, <<7947, 921>>>>,
     <<8076, <<7948, 921>>>>, <<8077, <<7949, 921>>>>, <<8078, <<7950, 921>>>>,
     <<8079, <<7951, 921>>>>, <<8080, <<7976, 921>>>>, <<8081, <<7977, 921>>>>,
     <<8082, <<7978, 921>>>>, <<8083, <<7979, 921>>>>, <<8084, <<7980, 921>>>>,
     <<8085, <<7981, 921>>>>, <<8086, <<7982, 921>>>>, <<8087, <<7983, 921>>>>,
     <<8088, <<7976, 921>>>>, <<8089, <<7977, 921>>>>, <<8090, <<7978, 921>>>>,
     <<8091, <<7979, 921>>>>, <<8092, <<7980, 921>>>>, <<8093, <<7981, 921>>>>,
     <<8094, <<7982, 921>>>>, <<8095, <<7983, 921>>>>, <<8096, <<8040, 921>>>>,
     <<8097, <<8041, 921>>>>, <<8098, <<8042, 921>>>>, <<8099, <<8043, 921>>>>,
     <<8100, <<8044, 921>>>>, <<8101, <<8045, 921>>>>, <<8102, <<8046, 921>>>>,
     <<8103, <<8047, 921>>>>, <<8104, <<8040, 921>>>>, <<8105, <<8041, 921>>>>,
     <<8106, <<8042, 921>>>>, <<8107, <<8043, 921>>>>, <<8108, <<8044, 921>>>>,
     <<8109, <<8045, 921>>>>, <<8110, <<8046, 921>>>>, <<8111, <<8047, 921>>>>,
     <<8114, <<8122, 921>>>>, <<8115, <<913, 921>>>>, <<8116, <<902, 921>>>>,
     <<8118, <<913, 834>>>>, <<8119, <<913, 834, 921>>>>, <<8124, <<913, 921>>>>,
     <<8130, <<8138, 921>>>>, <<8131, <<919, 921>>>>, <<8132, <<905, 921>>>>,
     <<8134, <<919, 834>>>>, <<8135, <<919, 834, 921>>>>, <<8140, <<919, 921>>>>,
     <<8146, <<921, 776, 768>>>>, <<8147, <<921, 776, 769>>>>, <<8150, <<921, 834>>>>,
     <<8151, <<921, 776, 834>>>>, <<8162, <<933, 776, 768>>>>, <<8163, <<933, 776, 769>>>>,
     <<8164, <<929, 787>>>>, <<8166, <<933, 834>>>>, <<8167, <<933, 776, 834>>>>,
     <<8178, <<8186, 921>>>>, <<8179, <<937, 921>>>>, <<8180, <<911, 921>>>>,
     <<8182, <<937, 834>>>>, <<8183, <<937, 834, 921>>>>, <<8188, <<937, 921>>>>,
     <<64256, <<70, 70>>>>, <<64257, <<70, 73>>>>, <<64258, <<70, 76>>>>,
     <<64259, <<70, 70, 73>>>>, <<64260, <<70, 70, 76>>>>, <<64261, <<83, 84>>>>,
     <<64262, <<83, 84>>>>, <<64275, <<1348, 1350>>>>, <<64276, <<1348, 1333>>>>,
     <<64277, <<1348, 1339>>>>, <<64278, <<1358, 1350>>>>, <<64279, <<1348, 1341>>>>}

\* str.upper() of one character; a character outside both tables is its
\* own uppercase.
chr_upper(c) ==
    IF \E e \in UpperSpecial : e[1] = c THEN (CHOOSE e \in UpperSpecial : e[1] = c)[2]
    ELSE IF \E r \in UpperRuns : c \in r[1]..r[2] /\ (c - r[1]) % r[3] = 0
    THEN <<(CHOOSE r \in UpperRuns : c \in r[1]..r[2] /\ (c - r[1]) % r[3] = 0)[4]
             + (c - (CHOOSE r \in UpperRuns : c \in r[1]..r[2] /\ (c - r[1]) % r[3] = 0)[1])>>
    ELSE <<c>>

\* str.upper(): character by character, without context.
RECURSIVE str_upper(_)
str_upper(s) == IF s = <<>> THEN <<>> ELSE chr_upper(Head(s)) \o str_upper(Tail(s))

\* logging.getLevelNamesMapping()
LevelNames ==
    {[name |-> Str(<<"C", "R", "I", "T", "I", "C", "A", "L">>), level |-> 50],
     [name |-> Str(<<"F", "A", "T", "A", "L">>), level |-> 50],
     [name |-> Str(<<"E", "R", "R", "O", "R">>), level |-> ERROR],
     [name |-> Str(<<"W", "A", "R", "N">>), level |-> WARNING],
     [name |-> Str(<<"W", "A", "R", "N", "I", "N", "G">>), level |-> WARNING],
     [name |-> Str(<<"I", "N", "F", "O">>), level |-> INFO],
     [name |-> Str(<<"D", "E", "B", "U", "G">>), level |-> DEBUG],
     [name |-> Str(<<"N", "O", "T", "S", "E", "T">>), level |-> 0]}

IsLevelName(s) == \E e \in LevelNames : e.name = s

LevelOfName(s) == (CHOOSE e \in LevelNames : e.name = s).level

ErrEmptyLevel == "ValueError: log level cannot be empty"
ErrUnknownLevel == "ValueError: unknown log level"
ErrUnsupportedLevel == "ValueError: unsupported log level value"
ErrFloatNaN == "ValueError: cannot convert float NaN to integer"
ErrFloatInfinity == "OverflowError: cannot convert float infinity to integer"
BadParameter == "click.BadParameter"

\* except ValueError
IsValueError(error) ==
    error \in {ErrEmptyLevel, ErrUnknownLevel, ErrUnsupportedLevel, ErrInvalidLiteral,
               ErrIntTooLong, ErrFloatNaN}

Coerced(level) == [error |-> NoError, level |-> level]

CoerceError(error) == [error |-> error, level |-> 0]

\* A count mapping that skips the INFO step.
level_from_count_without_info(count) ==
    IF count <= 0 THEN ERROR
    ELSE IF count = 1 THEN WARNING
    ELSE DEBUG

_level_from_count(count) ==
    IF count <= 0 THEN ERROR
    ELSE IF count = 1 THEN WARNING
    ELSE IF count = 2 THEN INFO
    ELSE DEBUG

\* A float is finite (held in tenths), an infinity or a NaN.
FloatValue(tenths) == [type |-> "float", kind |-> "finite", tenths |-> tenths]

FloatInfinity == [type |-> "float", kind |-> "inf", tenths |-> 0]

FloatNaN == [type |-> "float", kind |-> "nan", tenths |-> 0]

\* int(value) of a float: truncation towards zero; OverflowError for an
\* infinity and ValueError for a NaN.
int_of_float(value) ==
    IF value.kind = "inf" THEN [error |-> ErrFloatInfinity, number |-> 0]
    ELSE IF value.kind = "nan" THEN [error |-> ErrFloatNaN, number |-> 0]
    ELSE [error |-> NoError,
          number |-> IF value.tenths >= 0 THEN value.tenths \div 10
                     ELSE 0 - ((0 - value.tenths) \div 10)]

\* number = int(stripped); if number <= 4: return
\* self._level_from_count(number); return number
coerce_digits(parsed) ==
    IF parsed.error # NoError THEN CoerceError(parsed.error)
    ELSE IF parsed.number <= 4 THEN Coerced(_level_from_count(parsed.number))
    ELSE Coerced(parsed.number)

\* count = int(value); return self._level_from_count(count)
coerce_number(parsed) ==
    IF parsed.error # NoError THEN CoerceError(parsed.error)
    ELSE Coerced(_level_from_count(parsed.number))

coerce_str(stripped) ==
    IF stripped = <<>> THEN CoerceError(ErrEmptyLevel)
    ELSE IF str_isdigit(stripped) THEN coerce_digits(int_of_str(stripped))
    ELSE IF IsLevelName(str_upper(stripped)) THEN Coerced(LevelOfName(str_upper(stripped)))
    ELSE CoerceError(ErrUnknownLevel)

_coerce_level(value) ==
    CASE value.type = "Logger" -> Coerced(value.level)
      [] value.type = "str" -> coerce_str(str_strip(value.chars))
      [] value.type \in {"int", "bool"} -> Coerced(_level_from_count(value.number))
      [] value.type = "float" -> coerce_number(int_of_float(value))
      [] OTHER -> CoerceError(ErrUnsupportedLevel)

\* The ctx argument of convert: None, or a click.Context with its
\* command_path.
NoContext == [given |-> FALSE, command_path |-> ""]

ClickContext(command_path) == [given |-> TRUE, command_path |-> command_path]

\* (ctx.command_path if ctx and ctx.command_path else None) or "typerplus"
logger_name(ctx) ==
    IF ctx.given /\ ctx.command_path # "" THEN ctx.command_path ELSE "typerplus"

\* LoggerParser.convert: a ValueError of _coerce_level becomes the
\* click.BadParameter self.fail raises, any other exception leaves convert
\* as it is; otherwise the logger named after the command is returned with
\* its level set.
convert(value, ctx, coerced) ==
    IF coerced.error # NoError
    THEN [op |-> "convert", value |-> value, ctx |-> ctx,
          error |-> IF IsValueError(coerced.error) THEN BadParameter ELSE coerced.error,
          message |-> IF IsValueError(coerced.error) THEN coerced.error ELSE "",
          logger |-> [name |-> "", level |-> 0]]
    ELSE [op |-> "convert", value |-> value, ctx |-> ctx, error |-> NoError, message |-> "",
          logger |-> [name |-> logger_name(ctx), level |-> coerced.level]]

\* ------------------------------------------------------------------------
\* SpecLogger: a raw value drawn from counts, floats (an infinity and a
\* NaN among them), numeric strings in ASCII and other scripts, digit
\* strings int() refuses, level names in several cases and paddings and
\* with characters whose uppercase is an ASCII letter, blank and unknown
\* strings, and values of other types, converted by LoggerParser.convert
\* without a context, for a command without a path and for the command
\* "app".
\* ------------------------------------------------------------------------
MaxCount == 6
MaxDigits == 2

IntValue(n) == [type |-> "int", number |-> n]

BoolValue(b) == [type |-> "bool", number |-> IF b THEN 1 ELSE 0]

StrValue(chars) == [type |-> "str", chars |-> chars]

LoggerValue(level) == [type |-> "Logger", level |-> level]

OtherValue(type) == [type |-> type]

\* A level name in lower case and capitalised (ASCII letters).
LowerSpelling(name) == [i \in DOMAIN name |-> name[i] + 32]

CapitalSpelling(name) == [i \in DOMAIN name |-> IF i = 1 THEN name[i] ELSE name[i] + 32]

\* The ASCII numerals of up to MaxDigits digits.
Numerals == UNION {[1..n -> 48..57] : n \in 1..MaxDigits}

\* Numerals of other scripts: Arabic-Indic 3 and 25, 1 followed by
\* Arabic-Indic 3, fullwidth 5, Devanagari 04.
ForeignNumerals == {<<1635>>, <<1634, 1637>>, <<49, 1635>>, <<65301>>, <<2406, 2410>>}

\* Digit strings int() refuses: superscript two, 2 followed by it, circled
\* one, Ethiopic one, and a numeral one digit longer than the limit.
RefusedNumerals ==
    {<<178>>, <<50, 178>>, <<9312>>, <<4969>>, [i \in 1..(IntMaxStrDigits + 1) |-> 49]}

\* Tab, newline, no-break space, ideographic space and line separator
\* (whitespace), and the zero width space (not whitespace).
Paddings == {<<32>>, <<9>>, <<10>>, <<160>>, <<12288>>, <<8232>>, <<9, 32, 10>>}

ZeroWidthSpace == 8203

NameSpellings ==
    UNION {{e.name, LowerSpelling(e.name), CapitalSpelling(e.name)} : e \in LevelNames}
    \cup {p \o e.name \o q : p \in Paddings, q \in {<<>>, <<32>>, <<12288>>},
                            e \in {x \in LevelNames : x.level \in {INFO, DEBUG}}}

\* Spellings with a dotless i (U+0131), a long s (U+017F), a capital I
\* with dot (U+0130), a fullwidth i (U+FF49), the ligatures fi (U+FB01)
\* and st (U+FB06) and a sharp s (U+00DF).
ForeignSpellings ==
    {<<305>> \o Str(<<"n", "f", "o">>),
     Str(<<"w", "a", "r", "n">>) \o <<305>> \o Str(<<"n", "g">>),
     Str(<<"c", "r">>) \o <<305>> \o Str(<<"t">>) \o <<305>> \o Str(<<"c", "a", "l">>),
     Str(<<"n", "o", "t">>) \o <<383>> \o Str(<<"e", "t">>),
     Str(<<"N", "O", "T">>) \o <<383>> \o Str(<<"E", "T">>),
     <<304>> \o Str(<<"n", "f", "o">>),
     <<65353>> \o Str(<<"n", "f", "o">>),
     Str(<<"i", "n">>) \o <<64257>>,
     Str(<<"n", "o", "t">>) \o <<64262>>,
     Str(<<"n", "o", "t">>) \o <<223>> \o Str(<<"e", "t">>),
     Str(<<"d">>) \o <<233>> \o Str(<<"b", "u", "g">>)}

OddStrings ==
    {<<>>, <<32>>, <<32, 32>>, <<9>>, <<10, 9, 160>>, <<12288>>, <<ZeroWidthSpace>>,
     <<ZeroWidthSpace>> \o Str(<<"i", "n", "f", "o">>),
     Str(<<"X", "Y", "Z">>), Str(<<"-", "1">>), Str(<<"+", "1">>), Str(<<"1", ".", "5">>),
     Str(<<"v", "e", "r", "b", "o", "s", "e">>), Str(<<" ", "3", " ">>),
     Str(<<"3", " ", "3">>), <<9, 51, 10>>, <<12288, 50, 53, 160>>, <<9, 1635, 32>>,
     <<ZeroWidthSpace, 51>>, <<160, 178>>}

LoggerStrings == Numerals \cup ForeignNumerals \cup RefusedNumerals \cup NameSpellings
                     \cup ForeignSpellings \cup OddStrings

LoggerInputs ==
    {IntValue(n) : n \in (0 - 1)..MaxCount}
    \cup {BoolValue(b) : b \in BOOLEAN}
    \cup {FloatValue(t) : t \in {0 - 15, 0 - 5, 5, 19, 27, 30}}
    \cup {FloatInfinity, FloatNaN}
    \cup {StrValue(chars) : chars \in LoggerStrings}
    \cup {LoggerValue(level) : level \in {0, ERROR}}
    \cup {OtherValue(type) : type \in {"NoneType", "object", "list", "bytes"}}

LoggerContexts == {NoContext, ClickContext(""), ClickContext("app")}

InitLogger ==
    /\ functions = [f \in {"f"} |-> FunctionObject(<<>>)]
    /\ options = [i \in {1} |-> UnsetParser]
    /\ pipelines = [p \in {"p", "q"} |-> Pipeline(<<>>, <<>>, "None")]
    /\ config = NoConfig
    /\ adapters = <<>>
    /\ inv = Idle
    /\ heap = <<EmptyDict>>
    /\ finished = <<>>
    /\ last \in {[op |-> "value", value |-> v, ctx |-> ctx] :
                    v \in LoggerInputs, ctx \in LoggerContexts}
    /\ app = TyperPlus(NoPipeline)

Convert ==
    /\ last.op = "value"
    /\ last' = convert(last.value, last.ctx, _coerce_level(last.value))
    /\ UNCHANGED <<app, functions, options, pipelines, config, adapters, inv, heap, finished>>

NextLogger == Convert

SpecLogger == InitLogger /\ [][NextLogger]_vars

\* The level the count mapping of the claim gives.
CountLevel(n) == IF n = 0 THEN ERROR ELSE IF n = 1 THEN WARNING ELSE IF n = 2 THEN INFO ELSE DEBUG

Converted == last.op = "convert"

\* The conversion returned a logger set to the level; it failed with a
\* conversion error and returned no logger.
Succeeds(level) == last.error = NoError /\ last.logger.level = level

Fails == last.error = BadParameter /\ last.logger.name = ""

\* The string converted, without the whitespace around it.
Stripped == str_strip(last.value.chars)

\* A numeric string: decimal digits of any script, no more of them than
\* int() accepts; the number it denotes.
IsNumeric(text) ==
    /\ text # <<>>
    /\ Len(text) <= IntMaxStrDigits
    /\ \A i \in DOMAIN text : IsDecimal(text[i])

Denoted(text) == int_of_digits(text, 0)

\* A level name in any case: a string whose uppercase is a level name
\* (the uppercase of a string is never shorter than the string).
SpellsLevel(text) ==
    \E e \in LevelNames : Len(text) <= Len(e.name) /\ str_upper(text) = e.name

SupportedTypes == {"int", "bool", "float", "str", "Logger"}

\* The parts of C19 on counts, level names and failures: an integer count
\* n >= 0 converts to CountLevel(n); a string that spells a level name in
\* any case converts to its level; an empty or blank string, a string that
\* is neither numeric nor a level name and a value of an unsupported type
\* fail with a conversion error and return no logger.
CountsNamesAndFailures ==
    /\ (last.value.type = "int" /\ last.value.number >= 0) =>
           Succeeds(CountLevel(last.value.number))
    /\ last.value.type = "str" =>
           /\ Stripped = <<>> => Fails
           /\ SpellsLevel(Stripped) => Succeeds(LevelOfName(str_upper(Stripped)))
           /\ (Stripped # <<>> /\ ~IsNumeric(Stripped) /\ ~SpellsLevel(Stripped)) => Fails
    /\ last.value.type \notin SupportedTypes => Fails

\* C19 as stated: the count mapping 0 -> ERROR, 1 -> WARNING, 2 -> INFO,
\* >= 3 -> DEBUG; a numeric string converts to the level of the integer
\* count it denotes; level names convert case-insensitively; empty,
\* unknown and unsupported values fail with a conversion error.
C19_LoggerLevels ==
    Converted =>
        /\ CountsNamesAndFailures
        /\ (last.value.type = "str" /\ IsNumeric(Stripped)) =>
               Succeeds(CountLevel(Denoted(Stripped)))

\* C19 amended: as stated, except that only a numeric string denoting at
\* most 4 converts as the count it denotes, and a numeric string denoting
\* more than 4 converts to the level of that number itself; a numeric
\* string being one of decimal digits (of any script, at most 4300 of
\* them) with any whitespace around it, a level name in any case a string
\* whose str.upper() is a level name, and every other string failing.
C19_LoggerLevelsAmended ==
    Converted =>
        /\ CountsNamesAndFailures
        /\ (last.value.type = "str" /\ IsNumeric(Stripped)) =>
               /\ Denoted(Stripped) <= 4 => Succeeds(CountLevel(Denoted(Stripped)))
               /\ Denoted(Stripped) > 4 => Succeeds(Denoted(Stripped))

C19_Witness ==
    /\ Converted
    /\ last.value = StrValue(Str(<<"2", "5">>))
    /\ last.ctx = ClickContext("app")
    /\ last.error = NoError
    /\ last.logger = [name |-> "app", level |-> 25]

\* ------------------------------------------------------------------------
\* SpecResolveAny: as SpecResolve, with the adapter called directly with
\* any positional and keyword arguments, bound by the published signature
\* or not (keywords naming hidden, variadic or undeclared parameters
\* included).
\* ------------------------------------------------------------------------
MaxAnyParams == 2

AnySignatures == {sig \in UNION {SignaturesOfLen(n) : n \in 0..MaxAnyParams} : IsDef(sig)}

InitResolveAny ==
    /\ functions \in {[f \in {"f"} |-> FunctionObject(sig)] : sig \in AnySignatures}
    /\ options = EmptyDict
    /\ pipelines = [p \in {"p", "q"} |-> Pipeline(<<>>, <<>>, "None")]
    /\ config = NoConfig
    /\ adapters = <<>>
    /\ inv = Idle
    /\ heap = <<EmptyDict>>
    /\ finished = <<>>
    /\ last = Outcome("init", "", NoError)
    /\ app = TyperPlus(NoPipeline)

NextResolveAny ==
    \/ \E name \in VirtualNames :
          /\ Configuring
          /\ adapters = <<>>
          /\ pipelines["p"].virtual_params = <<>>
          /\ add_virtual_option("p", name, "False", BoolType, NoStateKey, TRUE)
    \/ /\ Configuring
       /\ Len(adapters) < MaxResolveAdapters
       /\ build("p", "f")
    \/ \E a \in DOMAIN adapters, call \in ResolveCalls :
          /\ Len(finished) < MaxResolveInvocations
          /\ AdapterCall(a, call)
    \/ invoke_target
    \/ AdapterReturn

SpecResolveAny == InitResolveAny /\ [][NextResolveAny]_vars

\* C20: every key of the incoming kwargs that is not one of the target's
\* virtual-parameter names is a key of the resolved kwargs, with the value
\* the call gave it.
C20_NoKeywordDropped ==
    \A r \in Called :
        \A k \in (DOMAIN r.call.kwargs) \ SeqRange(functions[adapters[r.adapter].target].virtual_param_names) :
            /\ k \in DOMAIN r.resolved.kwargs
            /\ r.resolved.kwargs[k] = r.call.kwargs[k]

C20_Witness ==
    \E r \in Called :
        LET target == functions[adapters[r.adapter].target]
        IN  /\ "v" \in DOMAIN r.call.kwargs
            /\ "v" \notin SeqRange(target.virtual_param_names)
            /\ ~HasKind(target.code, VK)
            /\ target.context_param_names # <<>>
            /\ "b" \in DOMAIN r.call.kwargs /\ "b" \in SeqRange(target.context_param_names)
            /\ r.resolved.kwargs["v"] = KeywordValue("v")

\* ------------------------------------------------------------------------
\* SpecContext: a Pipeline with middlewares built on a command that takes
\* the InvocationContext; during an invocation the middlewares read and
\* write the state and anyone holding the Invocation reads its
\* command_context, any number of times.
\* ------------------------------------------------------------------------
MaxContextParams == 2
MaxAccesses == 2
MaxContextAdapters == 1
MaxContextInvocations == 1

ContextSignatures ==
    {sig \in UNION {SignaturesOfLen(n) : n \in 1..MaxContextParams} :
        IsDef(sig) /\ \E i \in DOMAIN sig : sig[i].annotation = ContextType}

ContextCalls ==
    {InvocationCall(SubSeq(PositionalValues, 1, n), [k \in S |-> KeywordValue(k)]) :
        n \in 0..1, S \in SUBSET {"a", "b"}}

InitContext ==
    /\ functions \in {[f \in {"f"} |-> FunctionObject(sig)] : sig \in ContextSignatures}
    /\ options = EmptyDict
    /\ pipelines = [p \in {"p", "q"} |-> Pipeline(<<>>, <<>>, "None")]
    /\ config = NoConfig
    /\ adapters = <<>>
    /\ inv = Idle
    /\ heap = <<EmptyDict>>
    /\ finished = <<>>
    /\ last = Outcome("init", "", NoError)
    /\ app = TyperPlus(NoPipeline)

\* inv.command_context or inv.ctx read by a middleware or by a hook.
AccessContext ==
    /\ inv.pc \in {"handler", "unwind"}
    /\ Len(inv.accesses) < MaxAccesses
    /\ inv' = command_context(inv).inv
    /\ UNCHANGED <<app, functions, options, pipelines, config, adapters, heap, finished, last>>

NextContext ==
    \/ \E mw \in MiddlewareIds :
          /\ Configuring
          /\ adapters = <<>>
          /\ Len(pipelines["p"].middlewares) < MaxMiddlewares
          /\ use("p", mw)
    \/ /\ Configuring
       /\ Len(adapters) < MaxContextAdapters
       /\ build("p", "f")
    \/ \E a \in DOMAIN adapters, call \in ContextCalls :
          /\ Len(finished) < MaxContextInvocations
          /\ Binds(adapters[a].signature, call)
          /\ AdapterCall(a, call)
    \/ MiddlewareEnter
    \/ AccessContext
    \/ invoke_target
    \/ MiddlewareExit
    \/ AdapterReturn

SpecContext == InitContext /\ [][NextContext]_vars

\* C11: within one adapter invocation the state mapping is one shared
\* mapping that is never reset: whenever a middleware (before its own
\* write, and again in its post logic) or the command (through the state
\* and get_state of the InvocationContext it was handed) reads the state,
\* it finds the value written by every middleware entered before that
\* point.
C11_SharedState ==
    \A r \in Invocations :
        \A i \in DOMAIN r.seen :
            \A d \in 1..r.seen[i].depth :
                LET mw == adapters[r.adapter].handler[d]
                IN  /\ mw \in DOMAIN r.seen[i].state
                    /\ r.seen[i].state[mw] = InvToken(r.serial)
                    /\ r.seen[i].who = "target" => r.seen[i].value[mw] = InvToken(r.serial)

C11_Witness ==
    \E i \in DOMAIN finished :
        /\ Len(adapters[finished[i].adapter].handler) = 2
        /\ \E j \in DOMAIN finished[i].seen :
               finished[i].seen[j].who = "target" /\ finished[i].seen[j].depth = 2
        /\ \E j \in DOMAIN finished[i].seen :
               /\ finished[i].seen[j].at = "post"
               /\ finished[i].seen[j].depth = 1
               /\ DOMAIN finished[i].seen[j].state # {}
        /\ \E j \in DOMAIN finished[i].seen :
               finished[i].seen[j].at = "pre" /\ finished[i].seen[j].depth = 1

\* C12: all accesses to command_context (and ctx) of an Invocation, the
\* one made by resolve_call_arguments included, return the same single
\* InvocationContext, and every hidden context parameter of a target that
\* was called received that object.
C12_SingleContext ==
    \A r \in Invocations :
        /\ r.contexts <= 1
        /\ \A i \in DOMAIN r.accesses : r.accesses[i] = r.accesses[1]
        /\ r.pc = "unwind" =>
               /\ r.context_value = r.accesses[1]
               /\ \A n \in SeqRange(functions[adapters[r.adapter].target].context_param_names) :
                      r.received.named[n] = CTX

\* ------------------------------------------------------------------------
\* SpecRaise: a Pipeline whose middlewares are plain, guarded or raising,
\* built on a command of one required parameter whose body returns or
\* raises; the adapter is called with and without the argument.
\* ------------------------------------------------------------------------
MaxRaiseMiddlewares == 3
MaxRaiseAdapters == 1
MaxRaiseInvocations == 1

RaiseMiddlewareIds == {"A", "G", "R", "X"}

RaiseCalls == {NoCall, InvocationCall(<<"p1">>, EmptyDict)}

InitRaise ==
    /\ functions = [f \in {"f"} |-> FunctionObject(<<Parameter("a", PK, SigEmpty, AnnEmpty)>>)]
    /\ options = EmptyDict
    /\ pipelines = [p \in {"p", "q"} |-> Pipeline(<<>>, <<>>, "None")]
    /\ config = NoConfig
    /\ adapters = <<>>
    /\ inv = Idle
    /\ heap = <<EmptyDict>>
    /\ finished = <<>>
    /\ last = Outcome("init", "", NoError)
    /\ app = TyperPlus(NoPipeline)

NextRaise ==
    \/ \E mw \in RaiseMiddlewareIds :
          /\ Configuring
          /\ adapters = <<>>
          /\ Len(pipelines["p"].middlewares) < MaxRaiseMiddlewares
          /\ use("p", mw)
    \/ /\ Configuring
       /\ Len(adapters) < MaxRaiseAdapters
       /\ build("p", "f")
    \/ \E a \in DOMAIN adapters, call \in RaiseCalls :
          /\ Len(finished) < MaxRaiseInvocations
          /\ AdapterCall(a, call)
    \/ MiddlewareEnter
    \/ MiddlewareRaise
    \/ invoke_target
    \/ invoke_target_raising
    \/ MiddlewareExit
    \/ AdapterReturn

SpecRaise == InitRaise /\ [][NextRaise]_vars

\* The exception raised at a raise event of an invocation.
RaisedAt(r, who) ==
    CASE who = "target" -> BodyError
      [] who = "call" -> r.received.error
      [] OTHER -> MiddlewareError(who)

\* The guarded middlewares among the outermost depth ones, innermost
\* first.
RECURSIVE GuardedOutside(_, _)
GuardedOutside(handler, depth) ==
    IF depth = 0 THEN <<>>
    ELSE IF handler[depth] = "G"
         THEN <<handler[depth]>> \o GuardedOutside(handler, depth - 1)
         ELSE GuardedOutside(handler, depth - 1)

\* C13: an exception raised by the target (by its body, or by the call
\* that does not bind) or by a middleware leaves the adapter as the
\* outcome of the call, unchanged; after the raise nothing runs but the
\* cleanup blocks of the guarded middlewares outside the raising point,
\* innermost first (no post step, no entry of an inner middleware, no
\* target call); a middleware that raises before calling next keeps the
\* target from being called; and an invocation ends raised only when
\* something raised.
C13_ExceptionsPropagate ==
    \A r \in Invocations :
        /\ \A i \in DOMAIN r.trace :
               r.trace[i].kind = "raise" =>
                   /\ r.pc = "raised"
                   /\ r.result = "none"
                   /\ r.exception = RaisedAt(r, r.trace[i].who)
                   /\ r.exception # NoError
                   /\ LET after == SubSeq(r.trace, i + 1, Len(r.trace))
                          outside == GuardedOutside(adapters[r.adapter].handler, r.depth)
                      IN  /\ Len(after) = Len(outside)
                          /\ \A j \in DOMAIN after :
                                 after[j] = Event("cleanup", outside[j])
                   /\ r.trace[i].who = "R" =>
                          \A j \in DOMAIN r.trace : r.trace[j].kind # "call"
        /\ r.pc = "raised" => \E i \in DOMAIN r.trace : r.trace[i].kind = "raise"

C13_Witness ==
    \E i \in DOMAIN finished :
        /\ finished[i].pc = "raised"
        /\ finished[i].exception = BodyError
        /\ adapters[finished[i].adapter].handler = <<"G", "A", "G">>
        /\ finished[i].trace[Len(finished[i].trace)] = Event("cleanup", "G")

\* ------------------------------------------------------------------------
\* The global configuration (setup.py) and the TyperPlus facade (core.py).
\* Under SpecApp the Pipeline objects are those setup.py makes, in order
\* of creation: _pipeline_config is config, _global_pipeline the Pipeline
\* made last.
\* ------------------------------------------------------------------------
ErrSetupConflict == "ValueError: When providing a PipelineConfig, do not also supply decorators, middlewares, or invocation_factory arguments."

\* An optional argument: left at None (a collection, a factory), or
\* given.
NoneArg == [given |-> FALSE, value |-> <<>>]

NoFactoryArg == [given |-> FALSE, value |-> "None"]

Given(v) == [given |-> TRUE, value |-> v]

_global_pipeline(ps) == IF ps = <<>> THEN NoPipeline ELSE Len(ps)

\* PipelineConfig.add_decorators / add_decorator
PipelineConfig_add_decorators(cfg, decorators) ==
    IF decorators = <<>> THEN cfg ELSE [cfg EXCEPT !.decorators = @ \o decorators]

\* PipelineConfig.add_middlewares / add_middleware
PipelineConfig_add_middlewares(cfg, middlewares) ==
    IF middlewares = <<>> THEN cfg ELSE [cfg EXCEPT !.middlewares = @ \o middlewares]

PipelineConfig_set_invocation_factory(cfg, factory) ==
    [cfg EXCEPT !.invocation_factory = factory]

PipelineConfig_add_param_type(cfg, param_type, option_factory, parser_factory) ==
    [cfg EXCEPT !.param_type_hooks =
        Append(@, ParamTypeHook(param_type, option_factory, parser_factory))]

\* A check that takes an empty collection for an argument left out.
setup_conflict_by_truth(decorators, middlewares, factory) ==
    \/ decorators.given /\ decorators.value # <<>>
    \/ middlewares.given /\ middlewares.value # <<>>
    \/ factory.given

\* any(value is not None for value in (decorators, middlewares,
\* invocation_factory))
setup_conflict(decorators, middlewares, factory) ==
    decorators.given \/ middlewares.given \/ factory.given

\* The config setup() settles on, and the error it raises before
\* assigning anything.
setup_result(cfg, decorators, middlewares, factory) ==
    IF ~cfg.given
    THEN [config |->
              PipelineConfig_set_invocation_factory(
                  PipelineConfig_add_middlewares(
                      PipelineConfig_add_decorators(NoConfig, decorators.value),
                      middlewares.value),
                  factory.value),
          error |-> NoError]
    ELSE IF setup_conflict(decorators, middlewares, factory)
    THEN [config |-> cfg.value, error |-> ErrSetupConflict]
    ELSE [config |-> cfg.value, error |-> NoError]

SetupOutcome(cfg, decorators, middlewares, factory, error) ==
    [op |-> "setup", who |-> "global", error |-> error, config |-> cfg,
     decorators |-> decorators, middlewares |-> middlewares,
     invocation_factory |-> factory]

\* _pipeline_config = config; _global_pipeline = config.to_pipeline()
assign_global(cfg, made) ==
    /\ config' = cfg
    /\ pipelines' = IF made.error = NoError THEN Append(pipelines, made.pipeline)
                    ELSE pipelines

\* setup(config=..., decorators=..., middlewares=..., invocation_factory=...)
setup(cfg, decorators, middlewares, factory) ==
    /\ inv.pc = "idle"
    /\ LET out == setup_result(cfg, decorators, middlewares, factory)
       IN  /\ IF out.error = NoError
              THEN assign_global(out.config, to_pipeline_result(out.config))
              ELSE UNCHANGED <<config, pipelines>>
           /\ last' = SetupOutcome(cfg, decorators, middlewares, factory,
                                   IF out.error = NoError
                                   THEN to_pipeline_result(out.config).error
                                   ELSE out.error)
           /\ app' = IF out.error = NoError THEN [app EXCEPT !.helpers = <<>>] ELSE app
    /\ UNCHANGED <<functions, options, adapters, inv, heap, finished>>

\* A helper call: through the app or the global helpers (via), what it
\* registers (kind) and the thing registered.
Helper(via, kind, item) == [via |-> via, kind |-> kind, item |-> item]

\* _mutate_config(mutator), mutated being mutator(_pipeline_config)
_mutate_config(mutated, kind, item) ==
    /\ inv.pc = "idle"
    /\ assign_global(mutated, to_pipeline_result(mutated))
    /\ last' = Outcome(kind, "global", to_pipeline_result(mutated).error)
    /\ app' = [app EXCEPT !.helpers = Append(@, Helper("global", kind, item))]
    /\ UNCHANGED <<functions, options, adapters, inv, heap, finished>>

\* The global helpers of setup.py.
setup_use_middleware(mw) ==
    _mutate_config(PipelineConfig_add_middlewares(config, <<mw>>), "middleware", mw)

setup_use_decorator(dec) ==
    _mutate_config(PipelineConfig_add_decorators(config, <<dec>>), "decorator", dec)

setup_use_invocation_factory(factory) ==
    _mutate_config(PipelineConfig_set_invocation_factory(config, factory),
                   "invocation_factory", factory)

setup_register_param_type(param_type, option_factory, parser_factory) ==
    _mutate_config(PipelineConfig_add_param_type(config, param_type, option_factory,
                                                 parser_factory),
                   "param_type", ParamTypeHook(param_type, option_factory, parser_factory))

\* setup.inject_context: cfg.inject_context() adds the decorator
\* _ensure_context_parameter.
setup_inject_context ==
    _mutate_config(PipelineConfig_add_decorators(config, <<"_ensure_context_parameter">>),
                   "decorator", "_ensure_context_parameter")

LoggerHook == ParamTypeHook("Logger", NewOptionFactory, "LoggerParser")

setup_enable_logger ==
    setup_register_param_type(LoggerHook.param_type, LoggerHook.option_factory,
                              LoggerHook.parser_factory)

\* get_pipeline(): the Pipeline objects after the call; the one returned
\* is the last. Nothing is assigned when to_pipeline() raises.
get_pipeline(ps, cfg) ==
    IF _global_pipeline(ps) = NoPipeline /\ to_pipeline_result(cfg).error = NoError
    THEN Append(ps, to_pipeline_result(cfg).pipeline)
    ELSE ps

\* What get_pipeline() raises: the error of _pipeline_config.to_pipeline()
\* when there is no global Pipeline yet.
get_pipeline_error(ps, cfg) ==
    IF _global_pipeline(ps) = NoPipeline THEN to_pipeline_result(cfg).error ELSE NoError

\* TyperPlus.pipeline: self._pipeline or get_pipeline().  The Pipeline
\* objects after the access, the one returned (self) and the error raised.
TyperPlus_pipeline(a, ps, cfg) ==
    IF a._pipeline # NoPipeline
    THEN [pipelines |-> ps, self |-> a._pipeline, error |-> NoError]
    ELSE IF get_pipeline_error(ps, cfg) # NoError
    THEN [pipelines |-> ps, self |-> NoPipeline, error |-> get_pipeline_error(ps, cfg)]
    ELSE [pipelines |-> get_pipeline(ps, cfg), self |-> Len(get_pipeline(ps, cfg)),
          error |-> NoError]

\* The Pipeline methods the helpers call, on a pipeline value: the
\* pipeline after the call and the error raised.
Pipeline_use(pipeline, middleware) ==
    [pipeline |-> [pipeline EXCEPT !.middlewares = Append(@, middleware)], error |-> NoError]

Pipeline_use_decorator(pipeline, decorator) ==
    [pipeline |-> [pipeline EXCEPT !.decorators = Append(@, decorator)], error |-> NoError]

Pipeline_set_invocation_factory(pipeline, factory) ==
    [pipeline |-> [pipeline EXCEPT !.invocation_factory = factory], error |-> NoError]

Pipeline_register_param_type(pipeline, param_type, option_factory, parser_factory) ==
    [pipeline |-> [pipeline EXCEPT !.param_hooks =
                      Append(@, ParamTypeHook(param_type, option_factory, parser_factory))],
     error |-> NoError]

\* A helper method of the app: self.pipeline, which may raise, then the
\* method of the Pipeline it returned, which may raise too (out being what
\* the method makes of that Pipeline).
TyperPlus_helper(got, out, kind, item) ==
    /\ inv.pc = "idle"
    /\ IF got.error # NoError
       THEN /\ last' = Outcome(kind, "app", got.error)
            /\ UNCHANGED <<pipelines, app>>
       ELSE /\ pipelines' = [got.pipelines EXCEPT ![got.self] = out.pipeline]
            /\ last' = Outcome(kind, "app", out.error)
            /\ app' = IF out.error = NoError
                      THEN [app EXCEPT !.helpers = Append(@, Helper("app", kind, item))]
                      ELSE app
    /\ UNCHANGED <<functions, options, config, adapters, inv, heap, finished>>

AppPipeline == TyperPlus_pipeline(app, pipelines, config)

\* The Pipeline self.pipeline returned.
Returned(got) == got.pipelines[got.self]

TyperPlus_add_middleware(mw) ==
    TyperPlus_helper(AppPipeline, Pipeline_use(Returned(AppPipeline), mw), "middleware", mw)

TyperPlus_add_signature_transform(dec) ==
    TyperPlus_helper(AppPipeline, Pipeline_use_decorator(Returned(AppPipeline), dec),
                     "decorator", dec)

\* TyperPlus.inject_context: self.pipeline.inject_context() adds the
\* decorator _ensure_context_parameter.
TyperPlus_inject_context ==
    TyperPlus_helper(AppPipeline,
                     Pipeline_use_decorator(Returned(AppPipeline), "_ensure_context_parameter"),
                     "decorator", "_ensure_context_parameter")

TyperPlus_set_invocation_factory(factory) ==
    TyperPlus_helper(AppPipeline,
                     Pipeline_set_invocation_factory(Returned(AppPipeline), factory),
                     "invocation_factory", factory)

TyperPlus_register_param_type(param_type, option_factory, parser_factory) ==
    TyperPlus_helper(AppPipeline,
                     Pipeline_register_param_type(Returned(AppPipeline), param_type,
                                                  option_factory, parser_factory),
                     "param_type", ParamTypeHook(param_type, option_factory, parser_factory))

TyperPlus_add_virtual_option(name, option_default, annotation_type, state_key, store_in_state) ==
    TyperPlus_helper(AppPipeline,
                     add_virtual_option_to(Returned(AppPipeline), name, option_default,
                                           annotation_type, state_key, store_in_state),
                     "virtual_option", name)

TyperPlus_enable_logger ==
    TyperPlus_helper(AppPipeline,
                     Pipeline_register_param_type(Returned(AppPipeline), LoggerHook.param_type,
                                                  LoggerHook.option_factory,
                                                  LoggerHook.parser_factory),
                     "param_type", LoggerHook)

\* @app.before_invoke / @app.after_invoke: the hook func is wrapped in a
\* middleware (named after the hook), which self.add_middleware adds.
before_invoke(func) ==
    TyperPlus_helper(AppPipeline, Pipeline_use(Returned(AppPipeline), func),
                     "before_invoke", func)

after_invoke(func) ==
    TyperPlus_helper(AppPipeline, Pipeline_use(Returned(AppPipeline), func),
                     "after_invoke", func)

\* app.command(): pipeline = self.pipeline, which may raise; the register
\* closure returned keeps the Pipeline it captured.
TyperPlus_command ==
    /\ inv.pc = "idle"
    /\ pipelines' = AppPipeline.pipelines
    /\ last' = Outcome("command", "app", AppPipeline.error)
    /\ app' = IF AppPipeline.error = NoError
              THEN [app EXCEPT !.registers = Append(@, AppPipeline.self)]
              ELSE app
    /\ UNCHANGED <<functions, options, config, adapters, inv, heap, finished>>

\* A command of the app: the adapter Typer registered, and the helper
\* calls made before the registration.
RegisteredCommand(callback, helpers) == [callback |-> callback, helpers |-> helpers]

\* register(func), out being what pipeline.build(func) leaves: Typer
\* registers the adapter when the build returned.
register_commit(p, f, out) ==
    /\ inv.pc = "idle"
    /\ build_commit(p, f, out)
    /\ app' = IF out.error = NoError
              THEN [app EXCEPT !.registered_commands =
                       Append(@, RegisteredCommand(Len(adapters) + 1, app.helpers))]
              ELSE app
    /\ UNCHANGED <<pipelines, config, inv, heap, finished>>

\* The r-th register closure applied to the function f: the build is by
\* the Pipeline captured when app.command() was called, as that Pipeline
\* is now.
register(r, f) ==
    register_commit(app.registers[r], f,
        build_result(app.registers[r], pipelines[app.registers[r]], f, functions[f], options))

\* What a hook returns.
HookReturn(func) == "returned by hook"

\* func(inv, result); return result
after_invoke_return(result, hook_return) == result

\* The wrapper before_invoke or after_invoke made, up to its call of
\* next_handler(inv): the before hook runs here.
HookEnter ==
    /\ inv.pc = "handler"
    /\ inv.depth < Len(adapters[inv.adapter].handler)
    /\ MiddlewareKind(adapters[inv.adapter].handler[inv.depth + 1])
           \in {"before_invoke", "after_invoke"}
    /\ LET mw == adapters[inv.adapter].handler[inv.depth + 1]
       IN  inv' = [inv EXCEPT !.depth = @ + 1,
                              !.trace = IF MiddlewareKind(mw) = "before_invoke"
                                        THEN Append(@, Event("before", mw)) ELSE @]
    /\ UNCHANGED <<app, functions, options, pipelines, config, adapters, heap, finished, last>>

\* The wrapper after next_handler(inv) has returned: the after hook runs
\* here, on the result.
HookExit ==
    /\ inv.pc = "unwind"
    /\ inv.depth > 0
    /\ MiddlewareKind(adapters[inv.adapter].handler[inv.depth])
           \in {"before_invoke", "after_invoke"}
    /\ LET mw == adapters[inv.adapter].handler[inv.depth]
       IN  inv' = IF MiddlewareKind(mw) = "before_invoke"
                  THEN [inv EXCEPT !.depth = @ - 1]
                  ELSE [inv EXCEPT !.depth = @ - 1,
                                   !.trace = Append(@, Event("after", mw)),
                                   !.seen = Append(@, Observation(mw, "after", inv.depth,
                                                                  heap[inv.state], inv.result)),
                                   !.result = after_invoke_return(inv.result, HookReturn(mw))]
    /\ UNCHANGED <<app, functions, options, pipelines, config, adapters, heap, finished, last>>

\* ------------------------------------------------------------------------
\* SpecApp: after import of setup.py, a TyperPlus app without an explicit
\* pipeline; setup() calls (one of them with a config to_pipeline() raises
\* on), global helpers and app helpers in any order, app.command() and the
\* register function it returns applied to a command.
\* ------------------------------------------------------------------------
MaxGlobalPipelines == 2
MaxHelpers == 2
MaxAppCommands == 1

AppSetupMiddlewares == {NoneArg, Given(<<"A">>)}

\* A config whose virtual options name the same option twice:
\* to_pipeline() raises on it.
DuplicateConfig ==
    [NoConfig EXCEPT !.virtual_options =
        <<VirtualOptionConfig("v", "False", BoolType, NoStateKey, TRUE),
          VirtualOptionConfig("v", "False", BoolType, NoStateKey, TRUE)>>]

InitApp ==
    /\ functions = [f \in {"f"} |-> FunctionObject(<<>>)]
    /\ options = EmptyDict
    /\ pipelines = <<>>
    /\ config = NoConfig
    /\ adapters = <<>>
    /\ inv = Idle
    /\ heap = <<EmptyDict>>
    /\ finished = <<>>
    /\ last = Outcome("init", "", NoError)
    /\ app = TyperPlus(NoPipeline)

Registering == inv.pc = "idle" /\ adapters = <<>> /\ Len(app.helpers) < MaxHelpers

NextApp ==
    \/ \E middlewares \in AppSetupMiddlewares :
          /\ adapters = <<>>
          /\ Len(pipelines) < MaxGlobalPipelines
          /\ setup(NoneArg, NoneArg, middlewares, NoFactoryArg)
    \/ /\ pipelines = <<>>
       /\ config # DuplicateConfig
       /\ setup(Given(DuplicateConfig), NoneArg, NoneArg, NoFactoryArg)
    \/ /\ Registering
       /\ Len(pipelines) < MaxGlobalPipelines
       /\ \/ setup_use_middleware("A")
          \/ setup_use_decorator("D")
          \/ setup_use_invocation_factory(SharedStateFactory)
          \/ setup_enable_logger
    \/ /\ Registering
       /\ \/ TyperPlus_add_middleware("B")
          \/ TyperPlus_add_signature_transform("E")
          \/ TyperPlus_inject_context
          \/ TyperPlus_set_invocation_factory(SharedStateFactory)
          \/ TyperPlus_register_param_type("Token", NewOptionFactory, "TokenParser")
          \/ TyperPlus_add_virtual_option("v", "False", BoolType, NoStateKey, TRUE)
          \/ TyperPlus_enable_logger
          \/ before_invoke("before1")
          \/ after_invoke("after1")
    \/ /\ adapters = <<>>
       /\ Len(app.registers) < MaxAppCommands
       /\ TyperPlus_command
    \/ \E r \in DOMAIN app.registers :
          /\ Len(adapters) < MaxAppCommands
          /\ register(r, "f")

SpecApp == InitApp /\ [][NextApp]_vars

\* Whether a later helper call of the list sets the invocation factory.
FactorySetAfter(helpers, j) ==
    \E k \in DOMAIN helpers : k > j /\ helpers[k].kind = "invocation_factory"

\* C14: for an app without an explicit pipeline, every middleware (hook
\* wrappers included), decorator, param-type hook and invocation factory
\* registered since the last setup() and before the command was
\* registered, through the global helpers or the app's own, is part of the
\* configuration the command was built from (for the invocation factory:
\* the one registered last).
C14_RegistrationsApply ==
    \A i \in DOMAIN app.registered_commands :
        LET command == app.registered_commands[i]
            built == adapters[command.callback].built_from
        IN  \A j \in DOMAIN command.helpers :
                LET helper == command.helpers[j]
                IN  /\ helper.kind \in {"middleware", "before_invoke", "after_invoke"} =>
                           helper.item \in SeqRange(built.middlewares)
                    /\ helper.kind = "decorator" => helper.item \in SeqRange(built.decorators)
                    /\ helper.kind = "param_type" => helper.item \in SeqRange(built.param_hooks)
                    /\ (helper.kind = "invocation_factory"
                          /\ ~FactorySetAfter(command.helpers, j)) =>
                           built.invocation_factory = helper.item

\* ------------------------------------------------------------------------
\* SpecSetup: setup() called with every combination of its arguments,
\* between global helper calls and accesses to the global pipeline.
\* ------------------------------------------------------------------------
MaxSetupPipelines == 3

SetupConfigs ==
    {NoneArg, Given(NoConfig), Given(PipelineConfig_add_middlewares(NoConfig, <<"A">>))}

SetupDecorators == {NoneArg, Given(<<>>), Given(<<"D">>)}

SetupMiddlewares == {NoneArg, Given(<<>>), Given(<<"A">>)}

SetupFactories == {NoFactoryArg, Given(SharedStateFactory)}

NextSetup ==
    \/ \E cfg \in SetupConfigs, decorators \in SetupDecorators,
          middlewares \in SetupMiddlewares, factory \in SetupFactories :
          /\ Len(pipelines) < MaxSetupPipelines
          /\ setup(cfg, decorators, middlewares, factory)
    \/ /\ Len(pipelines) < MaxSetupPipelines
       /\ app.helpers = <<>>
       /\ \/ setup_use_middleware("A")
          \/ setup_use_decorator("D")
          \/ setup_use_invocation_factory(SharedStateFactory)
    \/ /\ app.helpers = <<>>
       /\ TyperPlus_add_middleware("B")

SpecSetup == InitApp /\ [][NextSetup]_vars

\* C15: setup() called with a PipelineConfig together with any of
\* decorators, middlewares or invocation_factory (an empty collection
\* included) raises ValueError and leaves the global configuration and the
\* global pipeline as they were.
C15_SetupConflictRaises ==
    [][ (last'.op = "setup" /\ last'.config.given
           /\ (last'.decorators.given \/ last'.middlewares.given
                 \/ last'.invocation_factory.given))
        => /\ last'.error = ErrSetupConflict
           /\ config' = config
           /\ pipelines' = pipelines ]_vars

C15_Witness ==
    /\ last.op = "setup"
    /\ last.error = ErrSetupConflict
    /\ last.decorators = Given(<<>>)
    /\ ~last.middlewares.given
    /\ ~last.invocation_factory.given
    /\ config.middlewares = <<"A">>
    /\ Len(pipelines) = 2

\* ------------------------------------------------------------------------
\* SpecHooks: before and after hooks and a middleware added to the app,
\* a global middleware registered in between, a command registered and
\* invoked, its body returning or raising.
\* ------------------------------------------------------------------------
MaxHookHelpers == 3
MaxHookInvocations == 1

BeforeHooks == {"before1", "before2"}

AfterHooks == {"after1", "after2"}

HookRegistering == inv.pc = "idle" /\ adapters = <<>> /\ Len(app.helpers) < MaxHookHelpers

NextHooks ==
    \/ /\ HookRegistering
       /\ setup_use_middleware("A")
    \/ /\ HookRegistering
       /\ TyperPlus_add_middleware("B")
    \/ \E func \in BeforeHooks : HookRegistering /\ before_invoke(func)
    \/ \E func \in AfterHooks : HookRegistering /\ after_invoke(func)
    \/ /\ adapters = <<>>
       /\ Len(app.registers) < MaxAppCommands
       /\ TyperPlus_command
    \/ \E r \in DOMAIN app.registers :
          /\ Len(adapters) < MaxAppCommands
          /\ register(r, "f")
    \/ \E a \in DOMAIN adapters :
          /\ Len(finished) < MaxHookInvocations
          /\ AdapterCall(a, NoCall)
    \/ MiddlewareEnter
    \/ HookEnter
    \/ invoke_target
    \/ invoke_target_raising
    \/ HookExit
    \/ MiddlewareExit
    \/ AdapterReturn

SpecHooks == InitApp /\ [][NextHooks]_vars

\* The position of the target call in a trace (0 when it was not made).
CallAt(trace) ==
    IF \E k \in DOMAIN trace : trace[k] = Event("call", "target")
    THEN CHOOSE k \in DOMAIN trace : trace[k] = Event("call", "target")
    ELSE 0

\* C16: on every completed invocation of a command of the app, every
\* before hook registered on the app before the command ran before the
\* command body; when the body returned, every after hook so registered
\* ran after it and received the command's result, and the caller got the
\* command's result; when the body raised, no after hook ran.
C16_HooksAroundBody ==
    \A i \in DOMAIN finished :
        \A c \in DOMAIN app.registered_commands :
            app.registered_commands[c].callback = finished[i].adapter =>
                LET r == finished[i]
                    helpers == app.registered_commands[c].helpers
                IN  /\ CallAt(r.trace) > 0
                    /\ \A j \in DOMAIN helpers :
                           helpers[j].kind = "before_invoke" =>
                               \E k \in 1..(CallAt(r.trace) - 1) :
                                   r.trace[k] = Event("before", helpers[j].item)
                    /\ r.pc = "unwind" =>
                           /\ r.result = "target result"
                           /\ \A j \in DOMAIN helpers :
                                  helpers[j].kind = "after_invoke" =>
                                      /\ \E k \in (CallAt(r.trace) + 1)..Len(r.trace) :
                                             r.trace[k] = Event("after", helpers[j].item)
                                      /\ \E k \in DOMAIN r.seen :
                                             /\ r.seen[k].who = helpers[j].item
                                             /\ r.seen[k].value = "target result"
                    /\ r.pc = "raised" =>
                           \A k \in DOMAIN r.trace : r.trace[k].kind # "after"

\* ------------------------------------------------------------------------
\* SpecOrder: decorators that wrap, that add a parameter and that publish
\* a template signature, hooks for Token with and without an option
\* factory and with different parsers, and a virtual option v, registered
\* on a Pipeline in any order; one build, and one call of the adapter.
\* ------------------------------------------------------------------------
MaxOrderDecorators == 2
MaxOrderHooks == 2
MaxOrderInvocations == 1

OrderDecorators == {"D", "E", "add_token", "add_ctx", "add_v", "template"}

OrderHooks ==
    {ParamTypeHook("Token", NoFactory, UnsetParser),
     ParamTypeHook("Token", NewOptionFactory, UnsetParser),
     ParamTypeHook("Token", NewOptionFactory, "TokenParser"),
     ParamTypeHook("Token", NewOptionFactory, "OtherParser")}

OrderSignatures == {<<>>, <<Parameter("a", PK, "dflt", AnnEmpty)>>}

InitOrder ==
    /\ functions \in {[f \in {"f"} |-> FunctionObject(sig)] : sig \in OrderSignatures}
    /\ options = EmptyDict
    /\ pipelines = [p \in {"p", "q"} |-> Pipeline(<<>>, <<>>, "None")]
    /\ config = NoConfig
    /\ adapters = <<>>
    /\ inv = Idle
    /\ heap = <<EmptyDict>>
    /\ finished = <<>>
    /\ last = Outcome("init", "", NoError)
    /\ app = TyperPlus(NoPipeline)

Unbuilt == inv.pc = "idle" /\ last.op # "build"

NextOrder ==
    \/ \E decorator \in OrderDecorators :
          /\ Unbuilt
          /\ Len(pipelines["p"].decorators) < MaxOrderDecorators
          /\ use_decorator("p", decorator)
    \/ \E hook \in OrderHooks :
          /\ Unbuilt
          /\ Len(pipelines["p"].param_hooks) < MaxOrderHooks
          /\ register_param_type("p", hook.param_type, hook.option_factory, hook.parser_factory)
    \/ /\ Unbuilt
       /\ pipelines["p"].virtual_params = <<>>
       /\ add_virtual_option("p", "v", "False", BoolType, NoStateKey, TRUE)
    \/ /\ Unbuilt
       /\ build("p", "f")
    \/ \E a \in DOMAIN adapters :
          /\ Len(finished) < MaxOrderInvocations
          /\ AdapterCall(a, NoCall)
    \/ invoke_target
    \/ AdapterReturn

SpecOrder == InitOrder /\ [][NextOrder]_vars

\* The decorators of the model that return a new object, and those of
\* them whose object publishes no signature of its own.
Wrapping == {"D", "E", "template"}

Plain == {"D", "E"}

\* Whether the parameter a decorator at position i adds is still in the
\* signature the decorators leave: no new object is made after it.
Survives(decorators, i) == \A j \in DOMAIN decorators : j > i => decorators[j] \notin Wrapping

\* Whether a decorator adds its parameter and the parameter survives.
AddedBy(decorators, which) ==
    \E i \in DOMAIN decorators : decorators[i] = which /\ Survives(decorators, i)

\* Whether a decorator adds a keyword-only parameter to the (*a, **k) of a
\* wrapper that publishes no signature: sig.replace refuses the list.
Breaks(decorators) ==
    \E i, j \in DOMAIN decorators :
        /\ i < j
        /\ decorators[i] \in Plain
        /\ decorators[j] \notin Wrapping
        /\ \A m \in (i + 1)..(j - 1) : decorators[m] \notin Wrapping

\* Whether the object the decorators leave is such a wrapper.
EndsPlain(decorators) ==
    \E i \in DOMAIN decorators : decorators[i] \in Plain /\ Survives(decorators, i)

ParamNamed(sig, name) == sig[CHOOSE i \in DOMAIN sig : sig[i].name = name]

\* The parser the hooks leave on an option that had none: that of the
\* first hook that has one.
RECURSIVE FirstParser(_)
FirstParser(hooks) ==
    IF hooks = <<>> THEN UnsetParser
    ELSE IF Head(hooks).parser_factory # NoFactory THEN Head(hooks).parser_factory
    ELSE FirstParser(Tail(hooks))

\* The decorators whose wrappers enclose a function object, outermost
\* first.
RECURSIVE WrapperChain(_)
WrapperChain(func) ==
    IF func.wrapped = <<>> THEN <<>> ELSE <<func.wrapper>> \o WrapperChain(func.wrapped[1])

IsWrapping(decorator) == decorator \in Wrapping

\* C17: after build(), (1) the decorators have been applied once each in
\* registration order, each to the result of the one before (the wrapper
\* registered last encloses the others and runs first at call time; a
\* parameter published before a wrapper is made is not in the wrapper's
\* signature, one published after it is; publishing on a wrapper that
\* shows (*a, **k) raises); (2) the hooks have run after the decorators
\* and in registration order (a Token parameter added by a decorator is
\* served by the first hook: its option gets the first parser registered,
\* or the build raises when the first hook has no option factory); (3)
\* the virtual option is injected after them (skipped when a decorator
\* added its name, appended after all other parameters otherwise, refused
\* after **k); (4) context hiding comes last: it hides the context
\* parameter a decorator added, and the signature it records holds the
\* virtual option and the hooks' option metadata.
C17_StageOrder ==
    last.op = "build" =>
        LET P == pipelines["p"]
            G == IF last.error = NoError THEN functions[adapters[1].target]
                 ELSE functions["f"]
            full == IF G.has_original_signature THEN G.original_signature
                    ELSE inspect_signature(G)
            token == AddedBy(P.decorators, "add_token")
            virtual == P.virtual_params # <<>>
        IN  /\ IsPrefix(functions["f"].applied, P.decorators)
            /\ \A i \in DOMAIN functions["f"].applied :
                   functions["f"].applied[i] \notin Wrapping
            /\ \A r \in Invocations :
                   r.pc \in {"unwind", "raised"} =>
                       \A i \in DOMAIN P.decorators :
                           P.decorators[i] \in Plain =>
                               \E k \in DOMAIN r.trace :
                                   /\ r.trace[k] = [kind |-> "wrapper", who |-> P.decorators[i]]
                                   /\ \A j \in DOMAIN P.decorators :
                                          (j > i /\ P.decorators[j] \in Plain) =>
                                              \E m \in 1..k :
                                                  r.trace[m] = [kind |-> "wrapper",
                                                                who |-> P.decorators[j]]
            /\ Breaks(P.decorators) => last.error = ErrBadSignature
            /\ (~Breaks(P.decorators) /\ EndsPlain(P.decorators) /\ virtual) =>
                   last.error = ErrBadSignature
            /\ (~Breaks(P.decorators) /\ token /\ P.param_hooks # <<>>
                  /\ P.param_hooks[1].option_factory = NoFactory) =>
                   last.error = ErrMissingOption
            /\ last.error = NoError =>
                   /\ G.applied = P.decorators
                   /\ WrapperChain(G) = Reverse(SelectSeq(P.decorators, IsWrapping))
                   /\ Innermost(G) = functions["f"]
                   /\ \A which \in {"add_token", "add_ctx"} :
                          AddedBy(P.decorators, which) <=>
                              DecoratorParameter(which).name \in ParamNames(full)
                   /\ (AddedBy(P.decorators, "add_v") \/ virtual) <=> "v" \in ParamNames(full)
                   /\ (token /\ P.param_hooks # <<>>) =>
                          /\ CarriesOption(ParamNamed(full, "t").annotation)
                          /\ options[find_parameter_info_arg(
                                 TyperAnnotation(ParamNamed(full, "t").annotation).annotations)[1].id]
                                 = FirstParser(P.param_hooks)
                   /\ (virtual /\ AddedBy(P.decorators, "add_v")) =>
                          /\ G.virtual_param_names = <<>>
                          /\ Cardinality({i \in DOMAIN full : full[i].name = "v"}) = 1
                   /\ (virtual /\ ~AddedBy(P.decorators, "add_v")) =>
                          /\ G.virtual_param_names = <<"v">>
                          /\ full[Len(full)].name = "v"
                   /\ AddedBy(P.decorators, "add_ctx") =>
                          /\ G.context_param_names = <<"c">>
                          /\ "c" \notin ParamNames(adapters[1].signature)
                          /\ "c" \in ParamNames(G.original_signature)
                          /\ virtual => "v" \in ParamNames(G.original_signature)
                          /\ virtual => "v" \in ParamNames(adapters[1].signature)

\* A build after which the adapter closes over the wrapper of the
\* template decorator: the Token parameter published on the wrapper got
\* the first hook's parser, the virtual option was appended to the
\* wrapper's signature, and the function itself was left as it was.
C17_Witness ==
    /\ last.op = "build"
    /\ last.error = NoError
    /\ pipelines["p"].decorators = <<"template", "add_token">>
    /\ Len(pipelines["p"].param_hooks) = 2
    /\ pipelines["p"].param_hooks[1].parser_factory = "OtherParser"
    /\ pipelines["p"].virtual_params # <<>>
    /\ functions[adapters[1].target].wrapper = "template"
    /\ functions[adapters[1].target].virtual_param_names = <<"v">>
    /\ NamesOf(adapters[1].signature) = <<"x", "t", "v">>
    /\ ~functions["f"].has_signature

\* ------------------------------------------------------------------------
\* Calls with too few or too many arguments (SpecResolveAny)
\* ------------------------------------------------------------------------
\* C21: for a target without hidden or virtual parameters, the final call
\* fails exactly when, and as, the direct call of the function with the
\* adapter's arguments fails (too many positional arguments, multiple
\* values, unexpected keyword, missing argument), and the positional
\* arguments the signature cannot accept are handed on, in order.
C21_FailsLikeDirectCall ==
    \A r \in Called :
        LET target == functions[adapters[r.adapter].target]
            direct == BindCall(target.code, r.call)
        IN  (target.context_param_names = <<>> /\ target.virtual_param_names = <<>>) =>
                /\ r.received.error = direct.error
                /\ (Len(r.call.args) > Len(PositionalParams(target.code))
                        /\ ~HasKind(target.code, VP)) =>
                       /\ Len(r.resolved.args) >= Len(r.call.args)
                       /\ SubSeq(r.resolved.args,
                                 Len(r.resolved.args) - Len(r.call.args) + 1,
                                 Len(r.resolved.args)) = r.call.args

\* ------------------------------------------------------------------------
\* SpecHide: _ensure_invocation_context_parameter applied, up to
\* MaxHideCalls times, to a function whose parameters may name the context
\* type in every spelling, after its signature has or has not been
\* published (derived by ensure_signature or given by set_signature) and
\* after a virtual option has or has not been added to it.
\* last keeps the function as it was before the first application (input)
\* and as the first application left it (once).
\* ------------------------------------------------------------------------
MaxHideCalls == 3

HideOutcome(calls, input, once) ==
    [op |-> "_ensure_invocation_context_parameter", who |-> "f", error |-> NoError,
     calls |-> calls, input |-> input, once |-> once]

EnsureContextParameter ==
    /\ IF last.op = "_ensure_invocation_context_parameter"
       THEN /\ last.calls < MaxHideCalls
            /\ last' = [last EXCEPT !.calls = @ + 1]
       ELSE last' = HideOutcome(1, functions["f"],
                        _ensure_invocation_context_parameter(functions["f"]))
    /\ functions' = [functions EXCEPT !["f"] = _ensure_invocation_context_parameter(@)]
    /\ UNCHANGED <<app, options, pipelines, config, adapters, inv, heap, finished>>

EnsureSignature ==
    /\ last.op = "init"
    /\ ~functions["f"].has_signature
    /\ functions' = [functions EXCEPT !["f"] = ensure_signature(@)]
    /\ UNCHANGED <<app, options, pipelines, config, adapters, inv, heap, finished, last>>

ApplyVirtualParameters ==
    /\ last.op = "init"
    /\ functions["f"].virtual_param_names = <<>>
    /\ \E name \in VirtualNames :
          LET out == _apply_virtual_parameters(functions["f"],
                         <<_VirtualParameter(name,
                               _create_virtual_option_parameter(name, "False", BoolType),
                               VirtualStateKey(name), "False")>>)
          IN  /\ out.error = NoError
              /\ functions' = [functions EXCEPT !["f"] = out.func]
    /\ UNCHANGED <<app, options, pipelines, config, adapters, inv, heap, finished, last>>

\* The signatures set_signature is called with: none, or one parameter
\* with a name the def has or has not, naming the context type or not.
HideSignatures ==
    {<<>>} \cup {<<Parameter(name, PK, SigEmpty, annotation)>> :
                    name \in {"a", "c"},
                    annotation \in {AnnEmpty, ContextType, AnnStr("CommandContext")}}

\* set_signature(f, sig) called directly.  Before the first call of the
\* operation under study last stays as it is; after it, last records that
\* the function has been handled since.
SetSignature(sig) ==
    /\ functions' = [functions EXCEPT !["f"] = set_signature(@, sig)]
    /\ last' = IF last.op = "init" THEN last ELSE [last EXCEPT !.op = "set_signature"]
    /\ UNCHANGED <<app, options, pipelines, config, adapters, inv, heap, finished>>

NextHide ==
    \/ EnsureSignature
    \/ last.op = "init" /\ \E sig \in HideSignatures : SetSignature(sig)
    \/ ApplyVirtualParameters
    \/ EnsureContextParameter

SpecHide == InitBuild /\ [][NextHide]_vars

\* C22: once _ensure_invocation_context_parameter has been applied to a
\* function, applying it again leaves the recorded context names, the
\* recorded original signature and the published runtime signature as the
\* first application left them; and a function none of whose parameters
\* names the context type is left as it was, with nothing recorded.
C22_HidingIdempotent ==
    last.op = "_ensure_invocation_context_parameter" =>
        LET F == functions["f"]
        IN  /\ F.context_param_names = last.once.context_param_names
            /\ F.has_original_signature = last.once.has_original_signature
            /\ F.original_signature = last.once.original_signature
            /\ F.has_runtime_signature = last.once.has_runtime_signature
            /\ F.runtime_signature = last.once.runtime_signature
            /\ inspect_signature(F) = inspect_signature(last.once)
            /\ (\A i \in DOMAIN inspect_signature(last.input) :
                    ~NamesContextType(inspect_signature(last.input)[i].annotation)) =>
                   /\ F = last.input
                   /\ ~F.has_original_signature /\ ~F.has_runtime_signature
                   /\ F.context_param_names = <<>>

C22_Witness ==
    /\ last.op = "_ensure_invocation_context_parameter"
    /\ last.calls = 2
    /\ functions["f"].context_param_names = <<"a">>
    /\ NamesOf(functions["f"].original_signature) = <<"a", "b", "v">>
    /\ NamesOf(functions["f"].runtime_signature) = <<"b", "v">>
    /\ last.input.virtual_param_names = <<"v">>

\* ------------------------------------------------------------------------
\* SpecAmbient: adapters of a Pipeline with middlewares, called in
\* processes whose typer and click context lookups are absent, return
\* None, return a context, or raise.
\* ------------------------------------------------------------------------
MaxAmbientMiddlewares == 2
MaxAmbientAdapters == 1
MaxAmbientInvocations == 2

Lookups == {LookupAbsent, PyNone, LookupContext, ErrLookupRuntime, ErrLookupOther}

NextAmbient ==
    \/ \E mw \in MiddlewareIds :
          /\ Configuring
          /\ adapters = <<>>
          /\ Len(pipelines["p"].middlewares) < MaxAmbientMiddlewares
          /\ use("p", mw)
    \/ /\ Configuring
       /\ Len(adapters) < MaxAmbientAdapters
       /\ build("p", "f")
    \/ \E a \in DOMAIN adapters, typer_lookup \in Lookups, click_lookup \in Lookups :
          /\ Len(finished) < MaxAmbientInvocations
          /\ AdapterCallIn(a, NoCall, typer_lookup, click_lookup)
    \/ MiddlewareEnter
    \/ invoke_target
    \/ MiddlewareExit
    \/ AdapterReturn

SpecAmbient == Init /\ [][NextAmbient]_vars

\* C23: no adapter call ends with an exception of the context lookup:
\* every call is dispatched through the chain (a finished call has run
\* every middleware and the target), and a lookup that failed leaves the
\* environment's context None.
C23_LookupBestEffort ==
    \A i \in DOMAIN finished :
        /\ finished[i].exception \notin {ErrLookupRuntime, ErrLookupOther}
        /\ finished[i].trace = ExpectedTrace(adapters[finished[i].adapter].handler)

\* ------------------------------------------------------------------------
\* SpecHook: the ensure() of a param-type hook applied, up to MaxHookCalls
\* times and with any hook each time, to a function whose parameters are
\* named or variadic (*args, **kwargs), with or without default, annotated
\* with the hook's type, a subclass, another spelling or nothing, bare or
\* with metadata (other items and up to two option descriptors, whose
\* parser slot is set or unset).  The hooks are registered for Token, for
\* SubToken and for click.Context, the base class of typer.Context.  last
\* keeps the hook, the function and the option heap the last application
\* started from.
\* ------------------------------------------------------------------------
MaxHookParams == 2
MaxHookCalls == 2

PresetParser == "PresetParser"

HookAnnotations ==
    {AnnEmpty, TokenType, AnnClass("SubToken"), AnnStr("Token"),
     AnnOptional(TokenType), TyperContext,
     AnnAnnotated(TokenType, <<MetaOther(1)>>),
     AnnAnnotated(AnnOptional(TokenType), <<MetaOther(1), MetaOption(1), MetaOther(2)>>),
     AnnAnnotated(TokenType, <<MetaOption(1), MetaOption(2)>>)}

HookShapes ==
    [kind : {PK, VP, KO, VK}, default : {SigEmpty, "dflt"}, annotation : HookAnnotations]

HookSignatures ==
    {sig \in UNION {{[i \in 1..n |-> Parameter(NameAt[i], s[i].kind, s[i].default, s[i].annotation)] :
                        s \in [1..n -> HookShapes]} : n \in 0..MaxHookParams} : IsAnnotatedDef(sig)}

HookCalls ==
    {ParamTypeHook("Token", NoFactory, UnsetParser),
     ParamTypeHook("Token", NoFactory, "OtherParser"),
     ParamTypeHook("Token", NewOptionFactory, "TokenParser"),
     ParamTypeHook("SubToken", NewOptionFactory, UnsetParser),
     ParamTypeHook("click.Context", NewOptionFactory, UnsetParser)}

InitHook ==
    /\ functions \in {[f \in {"f"} |-> FunctionObject(sig)] : sig \in HookSignatures}
    /\ options \in {[i \in {1, 2} |-> IF i = 1 THEN first ELSE UnsetParser] :
                       first \in {UnsetParser, PresetParser}}
    /\ pipelines = [p \in {"p", "q"} |-> Pipeline(<<>>, <<>>, "None")]
    /\ config = NoConfig
    /\ adapters = <<>>
    /\ inv = Idle
    /\ heap = <<EmptyDict>>
    /\ finished = <<>>
    /\ last = Outcome("init", "", NoError)
    /\ app = TyperPlus(NoPipeline)

HookOutcome(hook, func, opts, calls, out) ==
    [op |-> "ensure", who |-> "f", error |-> out.error, hook |-> hook,
     input |-> func, options |-> opts, calls |-> calls]

\* ensure(func) of the hook, on the function object f.
Ensure(hook) ==
    /\ last.op = "ensure" => last.calls < MaxHookCalls
    /\ functions' = [functions EXCEPT !["f"] = ensure(hook, functions["f"], options).func]
    /\ options' = ensure(hook, functions["f"], options).options
    /\ last' = HookOutcome(hook, functions["f"], options,
                   IF last.op = "ensure" THEN last.calls + 1 ELSE 1,
                   ensure(hook, functions["f"], options))
    /\ UNCHANGED <<app, pipelines, config, adapters, inv, heap, finished>>

NextHook == \E hook \in HookCalls : Ensure(hook)

SpecHook == InitHook /\ [][NextHook]_vars

\* The signature a hook application started from and the one it left.
HookBefore == inspect_signature(last.input)

HookAfter == inspect_signature(functions["f"])

HookMatched(i) == MatchesHookType(HookBefore[i].annotation, last.hook.param_type)

\* C24: after a hook has been applied, every parameter whose unwrapped
\* base type is neither the hook's type nor a subclass of it is as it was
\* (name, kind, default, annotation), every parameter whose base type is
\* one is rewritten to carry an option (unless the hook raised); and when
\* no parameter matches, the function object, its attributes and the
\* option objects are as they were and nothing is raised.
C24_NonMatchingUntouched ==
    last.op = "ensure" =>
        /\ Len(HookAfter) = Len(HookBefore)
        /\ \A i \in DOMAIN HookBefore : ~HookMatched(i) => HookAfter[i] = HookBefore[i]
        /\ last.error = NoError =>
               \A i \in DOMAIN HookBefore :
                   HookMatched(i) => CarriesOption(HookAfter[i].annotation)
        /\ (\A i \in DOMAIN HookBefore : ~HookMatched(i)) =>
               /\ functions["f"] = last.input
               /\ options = last.options
               /\ last.error = NoError

C24_Witness ==
    /\ last.op = "ensure"
    /\ last.error = NoError
    /\ last.hook.param_type = "Token"
    /\ Len(HookBefore) = 2
    /\ HookBefore[1].annotation = AnnClass("SubToken")
    /\ HookBefore[2].annotation = AnnStr("Token")
    /\ HookAfter[2] = HookBefore[2]
    /\ HookAfter[1] # HookBefore[1]

\* The option descriptors the matched parameters of the last application
\* carried: the first of each.
MatchedOptions ==
    {find_parameter_info_arg(TyperAnnotation(HookBefore[i].annotation).annotations)[1].id :
        i \in {j \in DOMAIN HookBefore :
                  /\ HookMatched(j)
                  /\ find_parameter_info_arg(
                         TyperAnnotation(HookBefore[j].annotation).annotations) # <<>>}}

\* C25: a hook application leaves the parser of every option that had
\* one as it was, whoever set it (the target's author, or an earlier
\* application of a hook); an option's parser changes only from unset to
\* the parser of the hook, and only on an option of a matched parameter.
C25_ParserNotOverridden ==
    last.op = "ensure" =>
        \A id \in DOMAIN last.options :
            /\ last.options[id] # UnsetParser => options[id] = last.options[id]
            /\ options[id] # last.options[id] =>
                   /\ last.hook.parser_factory # NoFactory
                   /\ options[id] = _instantiate_parser(last.hook.parser_factory)
                   /\ id \in MatchedOptions

C25_Witness ==
    /\ last.op = "ensure"
    /\ last.calls = 2
    /\ last.error = NoError
    /\ last.hook.parser_factory = "OtherParser"
    /\ MatchedOptions = {3}
    /\ last.options[3] = "TokenParser"
    /\ options[3] = "TokenParser"

\* ------------------------------------------------------------------------
\* signature.py: apply_runtime_view, exec_signature, runtime_signature
\* ------------------------------------------------------------------------
\* The names are stored only `if hidden_names:` and `if virtual_names:`.
apply_runtime_view(func, original, runtime, hidden_names, virtual_names) ==
    set_signature(
        [func EXCEPT !.has_original_signature = TRUE, !.original_signature = original,
                     !.has_runtime_signature = TRUE, !.runtime_signature = runtime,
                     !.context_param_names = IF hidden_names # <<>> THEN hidden_names ELSE @,
                     !.virtual_param_names = IF virtual_names # <<>> THEN virtual_names ELSE @],
        runtime)

exec_signature(func) ==
    IF func.has_original_signature THEN func.original_signature ELSE inspect_signature(func)

runtime_signature(func) ==
    IF func.has_runtime_signature THEN func.runtime_signature ELSE inspect_signature(func)

\* ------------------------------------------------------------------------
\* SpecView: apply_runtime_view called up to MaxViewCalls times on one
\* function, with any original and runtime signature and any hidden and
\* virtual names, and set_signature called in between.  last keeps the
\* arguments of the last apply_runtime_view call.
\* ------------------------------------------------------------------------
MaxViewCalls == 2

ViewParameter(name) ==
    Parameter(name, IF name = "v" THEN KO ELSE PK, SigEmpty,
              IF name = "a" THEN ContextType ELSE AnnEmpty)

ViewSignatures ==
    {<<>>, <<ViewParameter("b")>>, <<ViewParameter("a"), ViewParameter("b")>>,
     <<ViewParameter("b"), ViewParameter("v")>>,
     <<ViewParameter("a"), ViewParameter("b"), ViewParameter("v")>>}

HiddenNames == {<<>>, <<"a">>, <<"b">>}

VirtualNameLists == {<<>>, <<"v">>, <<"v", "w">>}

InitView ==
    /\ functions \in {[f \in {"f"} |-> FunctionObject(sig)] : sig \in ViewSignatures}
    /\ options = EmptyDict
    /\ pipelines = [p \in {"p", "q"} |-> Pipeline(<<>>, <<>>, "None")]
    /\ config = NoConfig
    /\ adapters = <<>>
    /\ inv = Idle
    /\ heap = <<EmptyDict>>
    /\ finished = <<>>
    /\ last = Outcome("init", "", NoError)
    /\ app = TyperPlus(NoPipeline)

ViewOutcome(original, runtime, hidden_names, virtual_names, calls) ==
    [op |-> "apply_runtime_view", who |-> "f", error |-> NoError,
     original |-> original, runtime |-> runtime,
     hidden_names |-> hidden_names, virtual_names |-> virtual_names, calls |-> calls]

ApplyRuntimeView(original, runtime, hidden_names, virtual_names) ==
    /\ last.op # "init" => last.calls < MaxViewCalls
    /\ functions' = [functions EXCEPT !["f"] =
                        apply_runtime_view(@, original, runtime, hidden_names, virtual_names)]
    /\ last' = ViewOutcome(original, runtime, hidden_names, virtual_names,
                   IF last.op = "init" THEN 1 ELSE last.calls + 1)
    /\ UNCHANGED <<app, options, pipelines, config, adapters, inv, heap, finished>>

NextView ==
    \/ \E original \in ViewSignatures, runtime \in ViewSignatures,
          hidden_names \in HiddenNames, virtual_names \in VirtualNameLists :
           ApplyRuntimeView(original, runtime, hidden_names, virtual_names)
    \/ \E sig \in ViewSignatures : SetSignature(sig)

SpecView == InitView /\ [][NextView]_vars

\* C26: after apply_runtime_view the recorded original signature is the
\* one given, the recorded runtime signature and the published signature
\* are the runtime one given, the recorded context names and virtual names
\* are the ones given, and exec_signature and runtime_signature return the
\* two signatures.
C26_RuntimeViewRecorded ==
    last.op = "apply_runtime_view" =>
        LET F == functions["f"]
        IN  /\ F.has_original_signature /\ F.original_signature = last.original
            /\ F.has_runtime_signature /\ F.runtime_signature = last.runtime
            /\ inspect_signature(F) = last.runtime
            /\ exec_signature(F) = last.original
            /\ runtime_signature(F) = last.runtime
            /\ F.context_param_names = last.hidden_names
            /\ F.virtual_param_names = last.virtual_names

\* ------------------------------------------------------------------------
\* Virtual options on targets of every shape (SpecResolveAny)
\* ------------------------------------------------------------------------
\* C27: every build succeeds, and the signature the adapter publishes
\* holds the name of each virtual option registered on the Pipeline
\* exactly once.
C27_VirtualInjected ==
    last.op = "build" =>
        /\ last.error = NoError
        /\ \A i \in DOMAIN pipelines[last.who].virtual_params :
               Cardinality({k \in DOMAIN adapters[Len(adapters)].signature :
                               adapters[Len(adapters)].signature[k].name
                                   = pipelines[last.who].virtual_params[i].name}) = 1

\* Whether the last hook application found a matching parameter, and none
\* that lacks option metadata while the hook has no option factory.
HookApplies ==
    /\ last.op = "ensure"
    /\ \E i \in DOMAIN HookBefore : HookMatched(i)
    /\ last.error # ErrMissingOption

\* C28: a hook applied to a signature with a matching parameter yields a
\* signature with the same names and kinds in the same order, in which a
\* matched parameter has the default None when it had none and its own
\* default otherwise.
C28_HookKeepsShape ==
    HookApplies =>
        /\ last.error = NoError
        /\ functions["f"].has_signature
        /\ Len(HookAfter) = Len(HookBefore)
        /\ \A i \in DOMAIN HookBefore :
               /\ HookAfter[i].name = HookBefore[i].name
               /\ HookAfter[i].kind = HookBefore[i].kind
               /\ HookMatched(i) =>
                      HookAfter[i].default = IF HookBefore[i].default = SigEmpty THEN PyNone
                                             ELSE HookBefore[i].default

\* The metadata items of an annotation, as the view holds them.
MetadataOf(annotation) == TyperAnnotation(annotation).annotations

\* C29: of every matched parameter a hook application started from, the
\* first option descriptor and the other metadata together are all its
\* metadata items, and after the rewrite each of the items is still
\* attached to the parameter, the other metadata in their original order.
C29_NoMetadataLost ==
    (last.op = "ensure" /\ last.error = NoError) =>
        \A i \in DOMAIN HookBefore :
            HookMatched(i) =>
                LET before == MetadataOf(HookBefore[i].annotation)
                    after == MetadataOf(HookAfter[i].annotation)
                    first == find_parameter_info_arg(before)
                    other == metadata_without_parameter_info(before)
                IN  /\ SeqRange(other) \cup (IF first = <<>> THEN {} ELSE {first[1]})
                           = SeqRange(before)
                    /\ SeqRange(before) \subseteq SeqRange(after)
                    /\ SubSeq(after, 1, Len(other)) = other

\* ------------------------------------------------------------------------
\* SpecGlobal: setup() and the global helpers of setup.py, called in any
\* order; setup() is given no config, an empty one, one with a middleware,
\* or one whose virtual options name the same option twice.
\* ------------------------------------------------------------------------
MaxGlobalCalls == 3
MaxConfigItems == 2

GlobalConfigs == SetupConfigs \cup {Given(DuplicateConfig)}

\* At most MaxConfigItems helper calls follow one setup().
Mutating ==
    /\ Len(pipelines) < MaxGlobalCalls
    /\ Len(app.helpers) < MaxConfigItems

NextGlobal ==
    \/ \E cfg \in GlobalConfigs, middlewares \in SetupMiddlewares :
          /\ Len(pipelines) < MaxGlobalCalls
          /\ setup(cfg, NoneArg, middlewares, NoFactoryArg)
    \/ \E mw \in MiddlewareIds : Mutating /\ setup_use_middleware(mw)
    \/ Mutating /\ setup_use_decorator("D")
    \/ Mutating /\ setup_inject_context
    \/ \E factory \in Factories :
          /\ Mutating
          /\ config.invocation_factory # factory
          /\ setup_use_invocation_factory(factory)
    \/ Mutating /\ setup_register_param_type("Token", NewOptionFactory, "TokenParser")
    \/ Mutating /\ setup_enable_logger

SpecGlobal == InitApp /\ [][NextGlobal]_vars

RECURSIVE OptionNames(_)
OptionNames(list) ==
    IF list = <<>> THEN <<>> ELSE <<Head(list).name>> \o OptionNames(Tail(list))

\* C30: after a call of setup() or of a global helper, returned or
\* raised, the pipeline get_pipeline() returns holds the decorators,
\* middlewares, hooks and virtual options of the config get_config()
\* returns, in order, and a second get_pipeline() returns the same Pipeline.
C30_PipelineFromConfig ==
    last.who = "global" =>
        LET got == get_pipeline(pipelines, config)
            pipeline == got[_global_pipeline(got)]
        IN  /\ _global_pipeline(got) # NoPipeline
            /\ pipeline.decorators = config.decorators
            /\ pipeline.middlewares = config.middlewares
            /\ pipeline.param_hooks = config.param_type_hooks
            /\ OptionNames(pipeline.virtual_params) = OptionNames(config.virtual_options)
            /\ get_pipeline(got, config) = got
====
